---- MODULE Spec2Model ----
(***************************************************************************)
(* EMR normalization service: ai_bot/services/emr_filter.py and            *)
(* ai_bot/services/report_generator.py.                                    *)
(*                                                                         *)
(* A Python str is a sequence of one-character strings, so that lower(),   *)
(* strip(), the substring test and the regular expressions of the source   *)
(* are computed character by character.  A JSON value is a record with a   *)
(* kind tag k and one field per kind.                                      *)
(***************************************************************************)
EXTENDS Integers, Sequences, FiniteSets, TLC

\* ------------------------------------------------------------------------
\* Characters and Python str operations
\* ------------------------------------------------------------------------

\* The characters of the model in code-point order (sorted() compares code points).
Chars ==
  << " ", "%", "&", "'", "(", ")", "+", ",", "-", ".", "/",
     "0", "1", "2", "3", "4", "5", "6", "7", "8", "9", ":", ";", "=",
     "A", "B", "C", "D", "E", "F", "G", "H", "I", "J", "K", "L", "M",
     "N", "O", "P", "Q", "R", "S", "T", "U", "V", "W", "X", "Y", "Z",
     "[", "]", "_",
     "a", "b", "c", "d", "e", "f", "g", "h", "i", "j", "k", "l", "m",
     "n", "o", "p", "q", "r", "s", "t", "u", "v", "w", "x", "y", "z",
     "{", "}", "~" >>

\* "~" stands for the one non-ASCII character of the source, the ellipsis of _shorten.
Ellipsis == "~"

CharSet == {Chars[i] : i \in 1..Len(Chars)}

Ord == [c \in CharSet |-> CHOOSE i \in 1..Len(Chars) : Chars[i] = c]

UpperChars == <<"A", "B", "C", "D", "E", "F", "G", "H", "I", "J", "K", "L", "M",
                "N", "O", "P", "Q", "R", "S", "T", "U", "V", "W", "X", "Y", "Z">>

LowerChars == <<"a", "b", "c", "d", "e", "f", "g", "h", "i", "j", "k", "l", "m",
                "n", "o", "p", "q", "r", "s", "t", "u", "v", "w", "x", "y", "z">>

UpperSet == {UpperChars[i] : i \in 1..26}

LowerSet == {LowerChars[i] : i \in 1..26}

DigitSet == {"0", "1", "2", "3", "4", "5", "6", "7", "8", "9"}

LowerOf == [c \in CharSet |->
              IF c \in UpperSet
                THEN LowerChars[CHOOSE i \in 1..26 : UpperChars[i] = c]
                ELSE c]

UpperOf == [c \in CharSet |->
              IF c \in LowerSet
                THEN UpperChars[CHOOSE i \in 1..26 : LowerChars[i] = c]
                ELSE c]

DigitVal == [c \in DigitSet |-> Ord[c] - Ord["0"]]

\* str.lower()
Lower(s) == [i \in 1..Len(s) |-> LowerOf[s[i]]]

\* \s of the re module, on the characters of the model
IsSpace(c) == c = " "

\* \w of the re module
IsWordChar(c) == c \in UpperSet \cup LowerSet \cup DigitSet \cup {"_"}

\* p occurs in s starting at index i
MatchAt(s, i, p) ==
  /\ i >= 1
  /\ i + Len(p) - 1 <= Len(s)
  /\ \A j \in 1..Len(p) : s[i + j - 1] = p[j]

\* case-insensitive occurrence, the (?i) flag
MatchAtI(s, i, p) == MatchAt(Lower(s), i, Lower(p))

\* p in s
Contains(s, p) == \E i \in 1..(Len(s) - Len(p) + 1) : MatchAt(s, i, p)

\* s.startswith(p)
StartsWith(s, p) == MatchAt(s, 1, p)

\* s.find(p), 0 when absent (1-based)
Find(s, p) ==
  IF Contains(s, p)
    THEN CHOOSE i \in 1..(Len(s) - Len(p) + 1) :
           /\ MatchAt(s, i, p)
           /\ \A j \in 1..(i - 1) : ~MatchAt(s, j, p)
    ELSE 0

\* the number of characters from index i on, up to the first one outside the class
RunLen(s, i, InClass(_)) ==
  (CHOOSE j \in i..(Len(s) + 1) :
     /\ j = Len(s) + 1 \/ ~InClass(s[j])
     /\ \A k \in i..(j - 1) : InClass(s[k])) - i

\* the number of characters before index i, down to the first one outside the class
RunLenBack(s, i, InClass(_)) ==
  i - (CHOOSE j \in 0..i :
         /\ j = 0 \/ ~InClass(s[j])
         /\ \A k \in (j + 1)..i : InClass(s[k]))

\* the concatenation of pieces[lo..hi], halving the range
RECURSIVE Flatten(_, _, _)
Flatten(pieces, lo, hi) ==
  IF lo > hi THEN <<>>
  ELSE IF lo = hi THEN pieces[lo]
  ELSE Flatten(pieces, lo, (lo + hi) \div 2) \o Flatten(pieces, (lo + hi) \div 2 + 1, hi)

\* str.lstrip()
LStrip(s) == SubSeq(s, 1 + RunLen(s, 1, IsSpace), Len(s))

\* str.rstrip()
RStrip(s) == SubSeq(s, 1, Len(s) - RunLenBack(s, Len(s), IsSpace))

\* str.strip()
Strip(s) == RStrip(LStrip(s))

\* a < b for str
StrLess(a, b) ==
  \/ Len(a) < Len(b) /\ \A i \in 1..Len(a) : a[i] = b[i]
  \/ \E i \in 1..Len(a) :
       /\ i <= Len(b)
       /\ \A j \in 1..(i - 1) : a[j] = b[j]
       /\ Ord[a[i]] < Ord[b[i]]

\* an insertion that does not look for the place of x
InsertInFront(x, xs) == <<x>> \o xs

\* list.insert keeping ascending order
RECURSIVE InsertSorted(_, _)
InsertSorted(x, xs) ==
  IF xs = <<>> THEN <<x>>
  ELSE IF StrLess(Head(xs), x) THEN <<Head(xs)>> \o InsertSorted(x, Tail(xs))
  ELSE <<x>> \o xs

\* sorted(xs) of a list of str
RECURSIVE SortList(_)
SortList(xs) == IF xs = <<>> THEN <<>> ELSE InsertSorted(Head(xs), SortList(Tail(xs)))

\* ", ".join(xs) and friends
RECURSIVE Join(_, _)
Join(sep, xs) ==
  IF xs = <<>> THEN <<>>
  ELSE IF Len(xs) = 1 THEN xs[1]
  ELSE xs[1] \o sep \o Join(sep, Tail(xs))

Range(f) == {f[i] : i \in DOMAIN f}

\* every enumeration of a set, the iteration orders a hash set can have
Perms(S) ==
  {f \in [1..Cardinality(S) -> S] : \A i, j \in 1..Cardinality(S) : i # j => f[i] # f[j]}

\* str(n) of a non-negative int
RECURSIVE NatStr(_)
NatStr(n) == IF n < 10 THEN <<Chars[Ord["0"] + n]>> ELSE NatStr(n \div 10) \o <<Chars[Ord["0"] + (n % 10)]>>

IntStr(n) == IF n < 0 THEN <<"-">> \o NatStr(-n) ELSE NatStr(n)

\* ------------------------------------------------------------------------
\* JSON values (the parsed request body) and the Python operations on them
\* ------------------------------------------------------------------------

\* None
Null == [k |-> "null", s |-> <<>>, n |-> 0, keys |-> <<>>, items |-> <<>>]

\* a str
Str(chars) == [k |-> "str", s |-> chars, n |-> 0, keys |-> <<>>, items |-> <<>>]

\* an int
Num(i) == [k |-> "num", s |-> <<>>, n |-> i, keys |-> <<>>, items |-> <<>>]

\* a list
List(xs) == [k |-> "list", s |-> <<>>, n |-> 0, keys |-> <<>>, items |-> xs]

\* a dict, in insertion order: ks[i] is the key of vs[i]
Dict(ks, vs) == [k |-> "dict", s |-> <<>>, n |-> 0, keys |-> ks, items |-> vs]

EmptyDict == Dict(<<>>, <<>>)

EmptyList == List(<<>>)

IsDict(v) == v.k = "dict"

IsList(v) == v.k = "list"

IsStr(v) == v.k = "str"

\* key in d
HasKey(d, key) == \E i \in 1..Len(d.keys) : d.keys[i] = key

\* d.get(key, default)
Get(d, key, default) ==
  IF HasKey(d, key)
    THEN d.items[CHOOSE i \in 1..Len(d.keys) : d.keys[i] = key]
    ELSE default

\* bool(v): None, "", 0, [] and {} are false
Truthy(v) ==
  CASE v.k = "null" -> FALSE
    [] v.k = "str"  -> v.s # <<>>
    [] v.k = "num"  -> v.n # 0
    [] v.k = "list" -> v.items # <<>>
    [] v.k = "dict" -> v.keys # <<>>

\* a or b
Or(a, b) == IF Truthy(a) THEN a ELSE b

\* v in ("", None)
IsEmptyOrNone(v) == v.k = "null" \/ (v.k = "str" /\ v.s = <<>>)

\* repr(v); the strings of the model hold no quote and no backslash, so repr
\* of a str is the str between single quotes
RECURSIVE Repr(_)
RECURSIVE ReprItems(_)
RECURSIVE ReprPairs(_, _)
Repr(v) ==
  CASE v.k = "null" -> <<"N", "o", "n", "e">>
    [] v.k = "str"  -> <<"'">> \o v.s \o <<"'">>
    [] v.k = "num"  -> IntStr(v.n)
    [] v.k = "list" -> <<"[">> \o ReprItems(v.items) \o <<"]">>
    [] v.k = "dict" -> <<"{">> \o ReprPairs(v.keys, v.items) \o <<"}">>

ReprItems(xs) ==
  IF xs = <<>> THEN <<>>
  ELSE IF Len(xs) = 1 THEN Repr(xs[1])
  ELSE Repr(xs[1]) \o <<",", " ">> \o ReprItems(Tail(xs))

ReprPairs(ks, vs) ==
  IF ks = <<>> THEN <<>>
  ELSE IF Len(ks) = 1 THEN <<"'">> \o ks[1] \o <<"'", ":", " ">> \o Repr(vs[1])
  ELSE <<"'">> \o ks[1] \o <<"'", ":", " ">> \o Repr(vs[1]) \o <<",", " ">>
         \o ReprPairs(Tail(ks), Tail(vs))

\* str(v), which is also what an f-string substitutes
ToStr(v) == IF v.k = "str" THEN v.s ELSE Repr(v)


\* ------------------------------------------------------------------------
\* Section normalization: strip_laterality and normalize_section_label
\* ------------------------------------------------------------------------

\* the laterality words of the source, lower case
RIGHT == <<"r", "i", "g", "h", "t">>

LEFT == <<"l", "e", "f", "t">>

\* \b at the gap before index i of s (i = Len(s) + 1 is the end of the string)
WordBoundary(s, i) ==
  LET before == i > 1 /\ IsWordChar(s[i - 1])
      after  == i <= Len(s) /\ IsWordChar(s[i])
  IN  before # after

\* length of the match of (?i)\b(right|left)\b at index i, 0 when there is none
LateralityWordAt(s, i) ==
  IF MatchAtI(s, i, RIGHT) /\ WordBoundary(s, i) /\ WordBoundary(s, i + 5) THEN 5
  ELSE IF MatchAtI(s, i, LEFT) /\ WordBoundary(s, i) /\ WordBoundary(s, i + 4) THEN 4
  ELSE 0

\* length of the match of (?i)(r/od|l/os|r/|l/|r-|l-) at index i, the alternatives
\* tried in the order written
LateralityAbbrevAt(s, i) ==
  IF MatchAtI(s, i, <<"r", "/", "o", "d">>) THEN 4
  ELSE IF MatchAtI(s, i, <<"l", "/", "o", "s">>) THEN 4
  ELSE IF MatchAtI(s, i, <<"r", "/">>) THEN 2
  ELSE IF MatchAtI(s, i, <<"l", "/">>) THEN 2
  ELSE IF MatchAtI(s, i, <<"r", "-">>) THEN 2
  ELSE IF MatchAtI(s, i, <<"l", "-">>) THEN 2
  ELSE 0

\* [\s\-_/]
IsSeparator(c) == IsSpace(c) \/ c \in {"-", "_", "/"}

\* length of the match of \s* at index i
SpaceRun(s, i) == RunLen(s, i, IsSpace)

\* length of the match of \(\s*\) at index i, 0 when there is none
EmptyParensAt(s, i) ==
  IF i <= Len(s) /\ s[i] = "("
       /\ i + 1 + SpaceRun(s, i + 1) <= Len(s)
       /\ s[i + 1 + SpaceRun(s, i + 1)] = ")"
    THEN 2 + SpaceRun(s, i + 1)
    ELSE 0

\* re.sub(r"(?i)\b(right|left)\b", "", s), scanning from index i
RECURSIVE SubLateralityWords(_, _)
SubLateralityWords(s, i) ==
  IF i > Len(s) THEN <<>>
  ELSE IF LateralityWordAt(s, i) > 0 THEN SubLateralityWords(s, i + LateralityWordAt(s, i))
  ELSE <<s[i]>> \o SubLateralityWords(s, i + 1)

\* re.sub(r"(?i)(r/od|l/os|r/|l/|r-|l-)", "", s), scanning from index i
RECURSIVE SubLateralityAbbrevs(_, _)
SubLateralityAbbrevs(s, i) ==
  IF i > Len(s) THEN <<>>
  ELSE IF LateralityAbbrevAt(s, i) > 0
    THEN SubLateralityAbbrevs(s, i + LateralityAbbrevAt(s, i))
  ELSE <<s[i]>> \o SubLateralityAbbrevs(s, i + 1)

\* re.sub(r"[\s\-_/]+", " ", s): a run of the class becomes one space, put where
\* the run starts
SubSeparators(s) ==
  Flatten([i \in 1..Len(s) |->
             IF ~IsSeparator(s[i]) THEN <<s[i]>>
             ELSE IF i > 1 /\ IsSeparator(s[i - 1]) THEN <<>>
             ELSE <<" ">>],
          1, Len(s))

\* re.sub(r"\(\s*\)", "", s), scanning from index i
RECURSIVE SubEmptyParens(_, _)
SubEmptyParens(s, i) ==
  IF i > Len(s) THEN <<>>
  ELSE IF EmptyParensAt(s, i) > 0 THEN SubEmptyParens(s, i + EmptyParensAt(s, i))
  ELSE <<s[i]>> \o SubEmptyParens(s, i + 1)

\* re.sub(r"\s+", " ", s): a run of whitespace becomes one space, put where the
\* run starts
SubSpaces(s) ==
  Flatten([i \in 1..Len(s) |->
             IF ~IsSpace(s[i]) THEN <<s[i]>>
             ELSE IF i > 1 /\ IsSpace(s[i - 1]) THEN <<>>
             ELSE <<" ">>],
          1, Len(s))

\* strip_laterality(text) for a str
strip_laterality(text) ==
  LET c1 == SubLateralityWords(text, 1)
      c2 == SubLateralityAbbrevs(c1, 1)
      c3 == SubSeparators(c2)
      c4 == SubEmptyParens(c3, 1)
  IN  Strip(SubSpaces(c4))

\* any(k in s for k in ("right", "r/od", "r/", "r-"))
HasRightToken(s) ==
  \/ Contains(s, RIGHT)
  \/ Contains(s, <<"r", "/", "o", "d">>)
  \/ Contains(s, <<"r", "/">>)
  \/ Contains(s, <<"r", "-">>)

\* any(k in s for k in ("left", "l/os", "l/", "l-"))
HasLeftToken(s) ==
  \/ Contains(s, LEFT)
  \/ Contains(s, <<"l", "/", "o", "s">>)
  \/ Contains(s, <<"l", "/">>)
  \/ Contains(s, <<"l", "-">>)

\* normalize_section_label(section_name) for a JSON value; the result is a str
normalize_section_label(section_name) ==
  IF ~IsStr(section_name) THEN <<"G", "e", "n", "e", "r", "a", "l">>
  ELSE IF HasRightToken(Lower(section_name.s))
    THEN Strip(<<"R", "i", "g", "h", "t", " ">> \o strip_laterality(section_name.s))
  ELSE IF HasLeftToken(Lower(section_name.s))
    THEN Strip(<<"L", "e", "f", "t", " ">> \o strip_laterality(section_name.s))
  ELSE Strip(section_name.s)


\* ------------------------------------------------------------------------
\* Data extraction: _valid_value, _extract_data, _process_templates
\* ------------------------------------------------------------------------

\* The state a traversal threads through its loops: whether an exception has
\* propagated (raised), the findings set, the audit dict, and adds, the list of
\* the findings.add / findings.append calls made so far (f: the string added,
\* v: the value it was formatted from).
NewAudit == [discarded |-> <<>>, warnings |-> <<>>]

NewRun(audit) == [raised |-> FALSE, findings |-> {}, audit |-> audit, adds |-> <<>>]

Raise(st) == [st EXCEPT !.raised = TRUE]

\* an append that puts the entry in front
DiscardInFront(st, entry) ==
  [st EXCEPT !.audit.discarded = <<entry>> \o st.audit.discarded]

\* audit["discarded"].append(entry)
Discard(st, entry) ==
  [st EXCEPT !.audit.discarded = Append(st.audit.discarded, entry)]

\* audit["warnings"].append(entry)
Warn(st, entry) ==
  [st EXCEPT !.audit.warnings = Append(st.audit.warnings, entry)]

\* findings.add(f), f formatted from the value v
AddFinding(st, f, v) ==
  [st EXCEPT !.findings = st.findings \cup {f},
             !.adds = Append(st.adds, [f |-> f, v |-> v])]

\* value.strip().lower() == "normal" for a str value
IsNormalText(value) == IsStr(value) /\ Lower(Strip(value.s)) = <<"n", "o", "r", "m", "a", "l">>

\* _valid_value without its test for "normal"
ValidValueKeepingNormal(value) == ~IsEmptyOrNone(value)

\* _valid_value(value)
_valid_value(value) ==
  IF IsEmptyOrNone(value) THEN FALSE
  ELSE IF IsNormalText(value) THEN FALSE
  ELSE TRUE

\* key.replace("_", " ").strip()
KeyLabel(key) == Strip([i \in 1..Len(key) |-> IF key[i] = "_" THEN " " ELSE key[i]])

\* the loop over the items of a list-valued field, from index i
RECURSIVE ExtractItems(_, _, _, _, _)
ExtractItems(st, label, key, items, i) ==
  IF i > Len(items) THEN st
  ELSE IF _valid_value(items[i])
    THEN ExtractItems(AddFinding(st, label \o <<":", " ">> \o ToStr(items[i]), items[i]),
                      label, key, items, i + 1)
  ELSE ExtractItems(Discard(st, label \o <<".">> \o key \o <<":", " ", "i", "g", "n", "o", "r", "e", "d", " ", "l", "i", "s", "t", " ", "i", "t", "e", "m", " ">>
                                  \o Repr(items[i])),
                    label, key, items, i + 1)

\* the body of the loop without the continue of the comments branch
ExtractFieldWithoutContinue(st, label, key, value) ==
  LET st1 == IF Lower(key) = <<"c", "o", "m", "m", "e", "n", "t", "s">>
               THEN Discard(st, label \o <<".">> \o key \o <<":", " ", "i", "g", "n", "o", "r", "e", "d", " ", "(", "c", "o", "m", "m", "e", "n", "t", "s", ")">>)
               ELSE st
  IN  IF IsList(value) THEN ExtractItems(st1, label, key, value.items, 1)
      ELSE IF _valid_value(value)
        THEN AddFinding(st1, label \o <<" ">> \o KeyLabel(key) \o <<":", " ">> \o ToStr(value), value)
      ELSE Discard(st1, label \o <<".">> \o key \o <<":", " ", "i", "g", "n", "o", "r", "e", "d", " ", "v", "a", "l", "u", "e", " ">> \o Repr(value))

\* the body of the loop over data.items() for one field
ExtractField(st, label, key, value) ==
  IF Lower(key) = <<"c", "o", "m", "m", "e", "n", "t", "s">>
    THEN Discard(st, label \o <<".">> \o key \o <<":", " ", "i", "g", "n", "o", "r", "e", "d", " ", "(", "c", "o", "m", "m", "e", "n", "t", "s", ")">>)
  ELSE IF IsList(value) THEN ExtractItems(st, label, key, value.items, 1)
  ELSE IF _valid_value(value)
    THEN AddFinding(st, label \o <<" ">> \o KeyLabel(key) \o <<":", " ">> \o ToStr(value), value)
  ELSE Discard(st, label \o <<".">> \o key \o <<":", " ", "i", "g", "n", "o", "r", "e", "d", " ", "v", "a", "l", "u", "e", " ">> \o Repr(value))

\* the loop over data.items(), from index i
RECURSIVE ExtractFields(_, _, _, _)
ExtractFields(st, data, label, i) ==
  IF i > Len(data.keys) THEN st
  ELSE ExtractFields(ExtractField(st, label, data.keys[i], data.items[i]), data, label, i + 1)

\* _extract_data(findings, data, label, audit); label is the str the f-strings show
_extract_data(st, data, label) ==
  IF ~IsDict(data) THEN Discard(st, label \o <<":", " ", "d", "a", "t", "a", " ", "n", "o", "t", " ", "a", " ", "d", "i", "c", "t">>)
  ELSE ExtractFields(st, data, label, 1)

\* What "for x in v" visits: the items of a list, the characters of a str, the
\* keys of a dict; None and an int are not iterable (TypeError).
Iterable(v) == v.k \in {"list", "str", "dict"}

IterItems(v) ==
  CASE v.k = "list" -> v.items
    [] v.k = "str"  -> [i \in 1..Len(v.s) |-> Str(<<v.s[i]>>)]
    [] v.k = "dict" -> [i \in 1..Len(v.keys) |-> Str(v.keys[i])]
    [] OTHER        -> <<>>

\* for form in forms: _extract_data(findings, form.get("data"), label, audit=audit)
\* form.get raises AttributeError when the form is not a dict
RECURSIVE ProcessForms(_, _, _, _)
ProcessForms(st, forms, label, i) ==
  IF st.raised \/ i > Len(forms) THEN st
  ELSE IF ~IsDict(forms[i]) THEN Raise(st)
  ELSE ProcessForms(_extract_data(st, Get(forms[i], <<"d", "a", "t", "a">>, Null), label), forms, label, i + 1)

\* the forms loop over a value that may not be iterable
ForForms(st, forms, label) ==
  IF ~Iterable(forms) THEN Raise(st) ELSE ProcessForms(st, IterItems(forms), label, 1)

\* the label of a section: section_name, else sectionname, else the default,
\* passed through the resolver when there is one
SectionLabel(section, default_label, resolve) ==
  LET label == Or(Or(Get(section, <<"s", "e", "c", "t", "i", "o", "n", "_", "n", "a", "m", "e">>, Null),
                     Get(section, <<"s", "e", "c", "t", "i", "o", "n", "n", "a", "m", "e">>, Null)),
                  Str(default_label))
  IN  IF resolve THEN normalize_section_label(label) ELSE ToStr(label)

\* for section in template.get("sections", []), from index i
RECURSIVE ProcessSections(_, _, _, _, _)
ProcessSections(st, sections, default_label, resolve, i) ==
  IF st.raised \/ i > Len(sections) THEN st
  ELSE IF ~IsDict(sections[i]) THEN Raise(st)
  ELSE ProcessSections(
         ForForms(st, Get(sections[i], <<"f", "o", "r", "m", "s">>, EmptyList),
                  SectionLabel(sections[i], default_label, resolve)),
         sections, default_label, resolve, i + 1)

\* the branches as three separate if statements: every key the template
\* carries is handled
ProcessTemplateEveryKey(st, template, default_label, resolve) ==
  IF ~IsDict(template) THEN st
  ELSE
    LET s1 == IF HasKey(template, <<"s", "e", "c", "t", "i", "o", "n", "s">>)
                THEN IF ~Iterable(Get(template, <<"s", "e", "c", "t", "i", "o", "n", "s">>, EmptyList)) THEN Raise(st)
                     ELSE ProcessSections(st, IterItems(Get(template, <<"s", "e", "c", "t", "i", "o", "n", "s">>, EmptyList)),
                                          default_label, resolve, 1)
                ELSE st
        s2 == IF ~s1.raised /\ HasKey(template, <<"f", "o", "r", "m", "s">>)
                THEN ForForms(s1, Get(template, <<"f", "o", "r", "m", "s">>, EmptyList), default_label)
                ELSE s1
    IN  IF ~s2.raised /\ HasKey(template, <<"d", "a", "t", "a">>)
          THEN _extract_data(s2, Get(template, <<"d", "a", "t", "a">>, Null), default_label)
          ELSE s2

\* the body of the loop over templates for one template
ProcessTemplate(st, template, default_label, resolve) ==
  IF ~IsDict(template) THEN st
  ELSE IF HasKey(template, <<"s", "e", "c", "t", "i", "o", "n", "s">>)
    THEN IF ~Iterable(Get(template, <<"s", "e", "c", "t", "i", "o", "n", "s">>, EmptyList)) THEN Raise(st)
         ELSE ProcessSections(st, IterItems(Get(template, <<"s", "e", "c", "t", "i", "o", "n", "s">>, EmptyList)),
                              default_label, resolve, 1)
  ELSE IF HasKey(template, <<"f", "o", "r", "m", "s">>)
    THEN ForForms(st, Get(template, <<"f", "o", "r", "m", "s">>, EmptyList), default_label)
  ELSE IF HasKey(template, <<"d", "a", "t", "a">>)
    THEN _extract_data(st, Get(template, <<"d", "a", "t", "a">>, Null), default_label)
  ELSE st

\* for template in templates, from index i
RECURSIVE ProcessTemplates(_, _, _, _, _)
ProcessTemplates(st, templates, default_label, resolve, i) ==
  IF st.raised \/ i > Len(templates) THEN st
  ELSE ProcessTemplates(ProcessTemplate(st, templates[i], default_label, resolve),
                        templates, default_label, resolve, i + 1)

\* _process_templates(findings, templates, default_label, section_label_resolver, audit)
_process_templates(st, templates, default_label, resolve) ==
  IF ~IsList(templates) THEN st
  ELSE ProcessTemplates(st, templates.items, default_label, resolve, 1)

\* extract_history_findings up to its return: history.get raises AttributeError
\* when history is not a dict
HistoryRun(history, audit) ==
  IF ~IsDict(history) THEN Raise(NewRun(audit))
  ELSE _process_templates(NewRun(audit), Get(history, <<"t", "e", "m", "p", "l", "a", "t", "e", "s">>, EmptyList),
                          <<"H", "i", "s", "t", "o", "r", "y">>, FALSE)

\* extract_examination_findings up to its return
ExaminationRun(examination, audit) ==
  IF ~IsDict(examination) THEN Raise(NewRun(audit))
  ELSE _process_templates(
         NewRun(audit),
         Or(Or(Get(examination, <<"t", "e", "m", "p", "l", "a", "t", "e", "s">>, Null), Get(examination, <<"t", "e", "m", "p", "l", "e", "t", "e", "s">>, Null)),
            EmptyList),
         <<"E", "x", "a", "m", "i", "n", "a", "t", "i", "o", "n">>, TRUE)


\* ------------------------------------------------------------------------
\* Investigation filtering: extract_investigation_findings, parse_investigations
\* ------------------------------------------------------------------------

\* lab.get("reference") or lab.get("reference_range")
LabRef(lab) == Or(Get(lab, <<"r", "e", "f", "e", "r", "e", "n", "c", "e">>, Null), Get(lab, <<"r", "e", "f", "e", "r", "e", "n", "c", "e", "_", "r", "a", "n", "g", "e">>, Null))

\* the entry string of a lab that passed the checks
LabEntry(lab) ==
  LET unit == Get(lab, <<"u", "n", "i", "t">>, Str(<<>>))
      e1   == ToStr(Get(lab, <<"n", "a", "m", "e">>, Null)) \o <<":", " ">> \o ToStr(Get(lab, <<"v", "a", "l", "u", "e">>, Null))
      e2   == IF Truthy(unit) THEN e1 \o <<" ">> \o ToStr(unit) ELSE e1
  IN  IF Truthy(LabRef(lab)) THEN e2 \o <<" ", "(", "r", "e", "f", " ">> \o ToStr(LabRef(lab)) \o <<")">> ELSE e2

\* the body of the loop of extract_investigation_findings for one lab
TextualLab(st, lab) ==
  IF ~IsDict(lab)
    THEN Discard(st, <<"i", "n", "v", "e", "s", "t", "i", "g", "a", "t", "i", "o", "n", ":", " ", "s", "k", "i", "p", "p", "e", "d", " ", "n", "o", "n", "-", "d", "i", "c", "t", " ", "e", "n", "t", "r", "y", " ">> \o Repr(lab))
  ELSE IF ~Truthy(Get(lab, <<"n", "a", "m", "e">>, Null))
    THEN Discard(st, <<"i", "n", "v", "e", "s", "t", "i", "g", "a", "t", "i", "o", "n", ":", " ", "s", "k", "i", "p", "p", "e", "d", " ", "l", "a", "b", " ", "w", "i", "t", "h", " ", "m", "i", "s", "s", "i", "n", "g", " ", "n", "a", "m", "e", " ">> \o ToStr(lab))
  ELSE IF IsEmptyOrNone(Get(lab, <<"v", "a", "l", "u", "e">>, Null))
    THEN Discard(st, <<"i", "n", "v", "e", "s", "t", "i", "g", "a", "t", "i", "o", "n", ":", " ", "s", "k", "i", "p", "p", "e", "d", " ">> \o ToStr(Get(lab, <<"n", "a", "m", "e">>, Null))
                       \o <<" ", "w", "i", "t", "h", " ", "e", "m", "p", "t", "y", " ", "v", "a", "l", "u", "e">>)
  ELSE IF IsNormalText(Get(lab, <<"v", "a", "l", "u", "e">>, Null))
    THEN Discard(st, <<"i", "n", "v", "e", "s", "t", "i", "g", "a", "t", "i", "o", "n", ":", " ", "s", "k", "i", "p", "p", "e", "d", " ">> \o ToStr(Get(lab, <<"n", "a", "m", "e">>, Null))
                       \o <<"=", "=", "'", "n", "o", "r", "m", "a", "l", "'">>)
  ELSE AddFinding(st, LabEntry(lab), Get(lab, <<"v", "a", "l", "u", "e">>, Null))

RECURSIVE TextualLabs(_, _, _)
TextualLabs(st, labs, i) ==
  IF i > Len(labs) THEN st ELSE TextualLabs(TextualLab(st, labs[i]), labs, i + 1)

\* extract_investigation_findings(investigation, audit) up to its return; the
\* findings list is the f column of adds
InvestigationRun(investigation, audit) ==
  IF ~IsList(investigation)
    THEN Discard(NewRun(audit), <<"i", "n", "v", "e", "s", "t", "i", "g", "a", "t", "i", "o", "n", ":", " ", "n", "o", "t", " ", "a", " ", "l", "i", "s", "t">>)
    ELSE TextualLabs(NewRun(audit), investigation.items, 1)

\* the list a run appended its findings to
FindingsList(st) == [i \in 1..Len(st.adds) |-> st.adds[i].f]

\* [0-9]+ from index i: the length of the longest run of digits
IsDigit(c) == c \in DigitSet

DigitRun(s, i) == RunLen(s, i, IsDigit)

\* the pieces of the match of [-+]?[0-9]*\.?[0-9]+ at index i: sign, integer
\* digits, and fraction digits (after a "."); len = 0 when there is no match.
\* [0-9]* is greedy; when no ".digits" follows, the last integer digit is what
\* [0-9]+ matches.
NumberAt(s, i) ==
  LET sg   == IF i <= Len(s) /\ s[i] \in {"-", "+"} THEN 1 ELSE 0
      p    == i + sg
      d1   == DigitRun(s, p)
      frac == IF p + d1 <= Len(s) /\ s[p + d1] = "." THEN DigitRun(s, p + d1 + 1) ELSE 0
  IN  IF frac > 0
        THEN [len |-> sg + d1 + 1 + frac, neg |-> sg = 1 /\ s[i] = "-",
              digits |-> SubSeq(s, p, p + d1 - 1) \o SubSeq(s, p + d1 + 1, p + d1 + frac),
              e |-> frac]
      ELSE IF d1 > 0
        THEN [len |-> sg + d1, neg |-> sg = 1 /\ s[i] = "-",
              digits |-> SubSeq(s, p, p + d1 - 1), e |-> 0]
      ELSE [len |-> 0, neg |-> FALSE, digits |-> <<>>, e |-> 0]

\* int(digits)
RECURSIVE DigitsVal(_)
DigitsVal(ds) ==
  IF ds = <<>> THEN 0 ELSE 10 * DigitsVal(SubSeq(ds, 1, Len(ds) - 1)) + DigitVal[ds[Len(ds)]]

\* A float is kept exactly as m / 10^e; None is some = FALSE.
NoNumber == [some |-> FALSE, m |-> 0, e |-> 0]

\* re.search(r"[-+]?[0-9]*\.?[0-9]+", raw) and float(m.group(0)), from index i
RECURSIVE SearchNumber(_, _)
SearchNumber(raw, i) ==
  IF i > Len(raw) THEN NoNumber
  ELSE IF NumberAt(raw, i).len > 0
    THEN [some |-> TRUE,
          m |-> IF NumberAt(raw, i).neg THEN 0 - DigitsVal(NumberAt(raw, i).digits)
                ELSE DigitsVal(NumberAt(raw, i).digits),
          e |-> NumberAt(raw, i).e]
  ELSE SearchNumber(raw, i + 1)

RECURSIVE Pow10(_)
Pow10(e) == IF e = 0 THEN 1 ELSE 10 * Pow10(e - 1)

\* the state parse_investigations threads through its loop
NewParse(audit) == [audit |-> audit, parsed |-> <<>>]
\* the body of the loop with the exclusion of the textual pass copied into it
ParseLabSkippingNormal(st, lab) ==
  IF ~IsDict(lab)
    THEN Discard(st, <<"p", "a", "r", "s", "e", "_", "i", "n", "v", "e", "s", "t", "i", "g", "a", "t", "i", "o", "n", "s", ":", " ", "s", "k", "i", "p", "p", "e", "d", " ", "n", "o", "n", "-", "d", "i", "c", "t", " ">> \o Repr(lab))
  ELSE IF \/ ~Truthy(Get(lab, <<"n", "a", "m", "e">>, Null))
          \/ IsEmptyOrNone(Get(lab, <<"v", "a", "l", "u", "e">>, Null))
          \/ IsNormalText(Get(lab, <<"v", "a", "l", "u", "e">>, Null))
    THEN Discard(st, <<"p", "a", "r", "s", "e", "_", "i", "n", "v", "e", "s", "t", "i", "g", "a", "t", "i", "o", "n", "s", ":", " ", "s", "k", "i", "p", "p", "e", "d", " ">> \o ToStr(lab))
  ELSE [st EXCEPT !.parsed = Append(st.parsed,
          [name          |-> Get(lab, <<"n", "a", "m", "e">>, Null),
           raw_value     |-> Strip(ToStr(Get(lab, <<"v", "a", "l", "u", "e">>, Null))),
           numeric_value |-> SearchNumber(Strip(ToStr(Get(lab, <<"v", "a", "l", "u", "e">>, Null))), 1),
           unit          |-> Get(lab, <<"u", "n", "i", "t">>, Null),
           reference     |-> LabRef(lab)])]

\* the body of the loop of parse_investigations for one lab; float() of a match
\* of the pattern never raises, so the except branch with its warning is not taken
ParseLab(st, lab) ==
  IF ~IsDict(lab)
    THEN Discard(st, <<"p", "a", "r", "s", "e", "_", "i", "n", "v", "e", "s", "t", "i", "g", "a", "t", "i", "o", "n", "s", ":", " ", "s", "k", "i", "p", "p", "e", "d", " ", "n", "o", "n", "-", "d", "i", "c", "t", " ">> \o Repr(lab))
  ELSE IF ~Truthy(Get(lab, <<"n", "a", "m", "e">>, Null)) \/ IsEmptyOrNone(Get(lab, <<"v", "a", "l", "u", "e">>, Null))
    THEN Discard(st, <<"p", "a", "r", "s", "e", "_", "i", "n", "v", "e", "s", "t", "i", "g", "a", "t", "i", "o", "n", "s", ":", " ", "s", "k", "i", "p", "p", "e", "d", " ">> \o ToStr(lab))
  ELSE [st EXCEPT !.parsed = Append(st.parsed,
          [name          |-> Get(lab, <<"n", "a", "m", "e">>, Null),
           raw_value     |-> Strip(ToStr(Get(lab, <<"v", "a", "l", "u", "e">>, Null))),
           numeric_value |-> SearchNumber(Strip(ToStr(Get(lab, <<"v", "a", "l", "u", "e">>, Null))), 1),
           unit          |-> Get(lab, <<"u", "n", "i", "t">>, Null),
           reference     |-> LabRef(lab)])]

RECURSIVE ParseLabs(_, _, _)
ParseLabs(st, labs, i) ==
  IF i > Len(labs) THEN st ELSE ParseLabs(ParseLab(st, labs[i]), labs, i + 1)

\* parse_investigations(investigation, audit)
parse_investigations(investigation, audit) ==
  IF ~IsList(investigation)
    THEN Warn(NewParse(audit), <<"p", "a", "r", "s", "e", "_", "i", "n", "v", "e", "s", "t", "i", "g", "a", "t", "i", "o", "n", "s", ":", " ", "i", "n", "v", "e", "s", "t", "i", "g", "a", "t", "i", "o", "n", " ", "i", "s", " ", "n", "o", "t", " ", "a", " ", "l", "i", "s", "t">>)
    ELSE ParseLabs(NewParse(audit), investigation.items, 1)

\* ------------------------------------------------------------------------
\* Safety scan and risk derivation
\* ------------------------------------------------------------------------

FORBIDDEN_TERMS ==
  << <<"p", "r", "e", "s", "c", "r", "i", "b", "e">>,
     <<"d", "i", "a", "g", "n", "o", "s", "e">>,
     <<"s", "t", "a", "r", "t", " ", "i", "n", "s", "u", "l", "i", "n">>,
     <<"s", "t", "a", "r", "t", " ", "m", "e", "t", "f", "o", "r", "m", "i", "n">>,
     <<"y", "o", "u", " ", "s", "h", "o", "u", "l", "d">>,
     <<"d", "o", " ", "s", "u", "r", "g", "e", "r", "y">>,
     <<"o", "p", "e", "r", "a", "t", "e">> >>

\* _scan(obj): the forbidden terms found in obj
RECURSIVE Scan(_)
Scan(obj) ==
  CASE obj.k \in {"dict", "list"} -> UNION {Scan(obj.items[i]) : i \in 1..Len(obj.items)}
    [] obj.k = "str" ->
         {FORBIDDEN_TERMS[i] : i \in {j \in 1..Len(FORBIDDEN_TERMS) :
                                        Contains(Lower(obj.s), FORBIDDEN_TERMS[j])}}
    [] OTHER -> {}

POOR_GLYCEMIC == <<"p", "o", "o", "r", " ", "g", "l", "y", "c", "e", "m", "i", "c", " ", "c", "o", "n", "t", "r", "o", "l">>

LONG_DIABETES == <<"l", "o", "n", "g", "-", "s", "t", "a", "n", "d", "i", "n", "g", " ", "d", "i", "a", "b", "e", "t", "e", "s">>

SINGLE_EYE == <<"s", "i", "n", "g", "l", "e", " ", "s", "e", "e", "i", "n", "g", " ", "e", "y", "e">>

\* num is not None and num >= 8.0
AtLeastEight(num) == num.some /\ num.m >= 8 * Pow10(num.e)

\* the HbA1c rule assigning the risk set instead of adding to it
RiskOfLabAssigning(st, lab) ==
  IF IsStr(lab.name) /\ Contains(Lower(lab.name.s), <<"h", "b", "a", "1", "c">>)
       /\ AtLeastEight(lab.numeric_value)
    THEN [st EXCEPT !.risks = {POOR_GLYCEMIC}]
    ELSE st

\* the body of the HbA1c loop for one parsed lab, st = [raised, risks];
\* (name or "").lower() raises AttributeError for a name that is not a str
RiskOfLab(st, lab) ==
  IF ~IsStr(Or(lab.name, Str(<<>>))) THEN [st EXCEPT !.raised = TRUE]
  ELSE IF Contains(Lower(Or(lab.name, Str(<<>>)).s), <<"h", "b", "a", "1", "c">>)
    THEN IF AtLeastEight(lab.numeric_value)
           THEN [st EXCEPT !.risks = st.risks \cup {POOR_GLYCEMIC}]
         ELSE IF Contains(Lower(lab.raw_value), <<"8">>) \/ Contains(Lower(lab.raw_value), <<"9">>)
           THEN [st EXCEPT !.risks = st.risks \cup {POOR_GLYCEMIC}]
         ELSE st
  ELSE st

RECURSIVE RiskOfLabs(_, _, _)
RiskOfLabs(st, labs, i) ==
  IF st.raised \/ i > Len(labs) THEN st ELSE RiskOfLabs(RiskOfLab(st, labs[i]), labs, i + 1)

\* derive_clinical_risks(history, exam, parsed_labs) up to its return: the set risks
RiskRun(history, exam, parsed) ==
  LET r1 == IF \E i \in 1..Len(history) : Contains(Lower(history[i]), <<"d", "i", "a", "b", "e", "t", "e", "s">>)
              THEN {LONG_DIABETES} ELSE {}
      r2 == IF \E i \in 1..Len(exam) : Contains(Lower(exam[i]), <<"p", "h", "t", "h", "i", "s", "i", "s">>)
              THEN {SINGLE_EYE} ELSE {}
  IN  RiskOfLabs([raised |-> FALSE, risks |-> r1 \cup r2], parsed, 1)

\* a prioritization that puts the risks in front of the examination findings
PrioritizeRisksFirst(history, exam, labs, risks) ==
  [high_priority |-> risks \o exam, medium_priority |-> labs, low_priority |-> history]

\* prioritize_context(history, exam, labs, risks)
prioritize_context(history, exam, labs, risks) ==
  [high_priority   |-> exam \o risks,
   medium_priority |-> labs,
   low_priority    |-> history]


\* list(findings): the set's iteration order, unsorted
Unsorted(xs) == xs

\* sorted(findings): the argument is the list the set's iterator yields
sorted(xs) == SortList(xs)


\* ------------------------------------------------------------------------
\* Report generator: report_generator.py
\* ------------------------------------------------------------------------

\* the default of _shorten's max_len
MAX_LEN == 140

\* the insight cap of generate_report
MAX_INSIGHTS == 6

\* _shorten(text, max_len)
_shorten(text, max_len) ==
  IF Len(Strip(text)) <= max_len THEN Strip(text)
  ELSE RStrip(SubSeq(Strip(text), 1, max_len - 1)) \o <<Ellipsis>>

\* s.replace("()", ""): two occurrences of "()" never overlap, so a character
\* goes exactly when it is the "(" or the ")" of an occurrence
RemoveEmptyParens(s) ==
  Flatten([i \in 1..Len(s) |->
             IF MatchAt(s, i, <<"(", ")">>) \/ MatchAt(s, i - 1, <<"(", ")">>)
               THEN <<>> ELSE <<s[i]>>],
          1, Len(s))

\* _normalize_text(s)
_normalize_text(s) == Strip(SubSpaces(RemoveEmptyParens(Strip(s))))

\* s.replace(" %", "%"): two occurrences of " %" never overlap, so a space goes
\* exactly when a "%" follows it
ReplacePercent(s) ==
  Flatten([i \in 1..Len(s) |-> IF MatchAt(s, i, <<" ", "%">>) THEN <<>> ELSE <<s[i]>>],
          1, Len(s))

\* s.replace(" % (", "% ("): likewise
ReplacePercentParen(s) ==
  Flatten([i \in 1..Len(s) |->
             IF MatchAt(s, i, <<" ", "%", " ", "(">>) THEN <<>> ELSE <<s[i]>>],
          1, Len(s))

\* s.capitalize()
Capitalize(s) ==
  [i \in 1..Len(s) |-> IF i = 1 THEN UpperOf[s[1]] ELSE LowerOf[s[i]]]

\* re.match(r"(?i)\b(left|right)\b.*eye", left): the laterality word matched at
\* the start of left, <<>> when there is no match
EyeLaterality(left) ==
  IF MatchAtI(left, 1, LEFT) /\ WordBoundary(left, 5)
       /\ \E j \in 5..Len(left) : MatchAtI(left, j, <<"e", "y", "e">>)
    THEN SubSeq(left, 1, 4)
  ELSE IF MatchAtI(left, 1, RIGHT) /\ WordBoundary(left, 6)
       /\ \E j \in 6..Len(left) : MatchAtI(left, j, <<"e", "y", "e">>)
    THEN SubSeq(left, 1, 5)
  ELSE <<>>

\* the lab-name test of _humanize_finding
IsLabLike(left) ==
  \/ StartsWith(Lower(left), <<"h", "b", "a", "1", "c">>)
  \/ StartsWith(Lower(left), <<"h", "b">>)
  \/ StartsWith(Lower(left), <<"c", "r", "e", "a", "t", "i", "n", "i", "n", "e">>)
  \/ StartsWith(Lower(left), <<"c", "h", "o", "l", "e", "s", "t", "e", "r", "o", "l">>)
  \/ StartsWith(Lower(left), <<"f", "a", "s", "t", "i", "n", "g", " ", "g", "l", "u", "c", "o", "s", "e">>)

\* _humanize_finding(finding) for a str
_humanize_finding(finding) ==
  IF finding = <<>> THEN <<>>
  ELSE
    LET f     == _normalize_text(finding)
        at    == Find(f, <<":", " ">>)
        left  == IF at > 0 THEN Strip(SubSeq(f, 1, at - 1)) ELSE Strip(f)
        right == IF at > 0 THEN Strip(SubSeq(f, at + 2, Len(f))) ELSE <<>>
        lat   == Capitalize(EyeLaterality(left))
        content == Strip(SubSeq(left, 8, Len(left)))
    IN  IF EyeLaterality(left) # <<>>
          THEN IF right # <<>> THEN lat \o <<" ", "e", "y", "e", ":", " ">> \o right
               ELSE lat \o <<" ", "e", "y", "e", ":", " ">> \o left
        ELSE IF IsLabLike(left)
          THEN left \o <<":", " ">> \o ReplacePercentParen(ReplacePercent(right))
        ELSE IF StartsWith(Lower(left), <<"g", "e", "n", "e", "r", "a", "l">>) /\ content # <<>>
          THEN Capitalize(content) \o <<":", " ">> \o right
        ELSE IF right # <<>> THEN left \o <<":", " ">> \o right
        ELSE left

\* re.sub(r"[^a-z\s]", "", s)
KeepLettersAndSpaces(s) ==
  Flatten([i \in 1..Len(s) |->
             IF s[i] \in LowerSet \/ IsSpace(s[i]) THEN <<s[i]>> ELSE <<>>],
          1, Len(s))

\* _normalize_key_for_dedup(s)
_normalize_key_for_dedup(s) == Strip(SubSpaces(KeepLettersAndSpaces(Lower(s))))

\* the first loop of generate_report: st = [insights, seen_keys], from index i;
\* the loop breaks once MAX_INSIGHTS insights are kept
RECURSIVE InsightLoop(_, _, _)
InsightLoop(st, ordered_findings, i) ==
  IF i > Len(ordered_findings) \/ Len(st.insights) >= MAX_INSIGHTS THEN st
  ELSE
    LET h   == _humanize_finding(ordered_findings[i])
        key == _normalize_key_for_dedup(h)
    IN  IF h = <<>> \/ key \in st.seen_keys
          THEN InsightLoop(st, ordered_findings, i + 1)
        ELSE InsightLoop([insights  |-> Append(st.insights, _shorten(h, MAX_LEN)),
                          seen_keys |-> st.seen_keys \cup {key}],
                         ordered_findings, i + 1)

\* the sentence of a risk flag
RiskMessage(r) ==
  IF r = POOR_GLYCEMIC
    THEN <<"P", "o", "o", "r", " ", "g", "l", "y", "c", "e", "m", "i", "c", " ", "c", "o", "n", "t", "r", "o", "l", " ", "n", "o", "t", "e", "d", ";", " ", "c", "o", "n", "s", "i", "d", "e", "r", " ", "t", "i", "g", "h", "t", "e", "r", " ", "g", "l", "u", "c", "o", "s", "e", " ", "c", "o", "n", "t", "r", "o", "l", ".">>
  ELSE IF r = LONG_DIABETES
    THEN <<"L", "o", "n", "g", "-", "s", "t", "a", "n", "d", "i", "n", "g", " ", "d", "i", "a", "b", "e", "t", "e", "s", " ", "n", "o", "t", "e", "d", ";", " ", "c", "h", "e", "c", "k", " ", "f", "o", "r", " ", "c", "h", "r", "o", "n", "i", "c", " ", "c", "o", "m", "p", "l", "i", "c", "a", "t", "i", "o", "n", "s", ".">>
  ELSE IF r = SINGLE_EYE
    THEN <<"S", "i", "n", "g", "l", "e", "-", "s", "e", "e", "i", "n", "g", " ", "e", "y", "e", " ", "d", "e", "t", "e", "c", "t", "e", "d", ";", " ", "p", "r", "i", "o", "r", "i", "t", "i", "z", "e", " ", "p", "r", "o", "t", "e", "c", "t", "i", "n", "g", " ", "v", "i", "s", "i", "o", "n", ".">>
  ELSE r

\* the second loop of generate_report, from index i
RECURSIVE RiskLoop(_, _, _)
RiskLoop(st, risks, i) ==
  IF i > Len(risks) THEN st
  ELSE IF _normalize_key_for_dedup(RiskMessage(risks[i])) \in st.seen_keys
    THEN RiskLoop(st, risks, i + 1)
  ELSE RiskLoop([insights  |-> Append(st.insights, RiskMessage(risks[i])),
                 seen_keys |-> st.seen_keys \cup {_normalize_key_for_dedup(RiskMessage(risks[i]))}],
                risks, i + 1)

\* the two loops in the other order: the risk sentences first
KeyInsightsRisksFirst(payload) ==
  InsightLoop(RiskLoop([insights |-> <<>>, seen_keys |-> {}], payload.meta.risk_flags, 1),
              payload.clinical_context.high_priority
                \o payload.clinical_context.medium_priority
                \o payload.clinical_context.low_priority, 1).insights

\* the key_insights of generate_report(payload)
KeyInsights(payload) ==
  RiskLoop(InsightLoop([insights |-> <<>>, seen_keys |-> {}],
                       payload.clinical_context.high_priority
                         \o payload.clinical_context.medium_priority
                         \o payload.clinical_context.low_priority, 1),
           payload.meta.risk_flags, 1).insights

RISK_TO_ACTIONS ==
  [r \in {SINGLE_EYE, LONG_DIABETES, POOR_GLYCEMIC} |->
     IF r = SINGLE_EYE
       THEN << <<"U", "r", "g", "e", "n", "t", " ", "o", "p", "h", "t", "h", "a", "l", "m", "o", "l", "o", "g", "y", " ", "r", "e", "v", "i", "e", "w">>, <<"W", "a", "r", "n", " ", "a", "b", "o", "u", "t", " ", "v", "i", "s", "i", "o", "n", " ", "p", "r", "e", "s", "e", "r", "v", "a", "t", "i", "o", "n">> >>
     ELSE IF r = LONG_DIABETES
       THEN << <<"D", "e", "t", "a", "i", "l", "e", "d", " ", "r", "e", "t", "i", "n", "a", "l", " ", "e", "x", "a", "m", "i", "n", "a", "t", "i", "o", "n">>, <<"O", "p", "t", "i", "m", "i", "z", "e", " ", "b", "l", "o", "o", "d", " ", "g", "l", "u", "c", "o", "s", "e", " ", "c", "o", "n", "t", "r", "o", "l">> >>
     ELSE << <<"O", "p", "t", "i", "m", "i", "z", "e", " ", "b", "l", "o", "o", "d", " ", "g", "l", "u", "c", "o", "s", "e", " ", "c", "o", "n", "t", "r", "o", "l">>,
             <<"C", "o", "n", "s", "i", "d", "e", "r", " ", "H", "b", "A", "1", "c", " ", "r", "e", "c", "h", "e", "c", "k", " ", "&", " ", "d", "i", "a", "b", "e", "t", "e", "s", " ", "c", "l", "i", "n", "i", "c", " ", "r", "e", "f", "e", "r", "r", "a", "l">> >>]

CLINICAL_REVIEW == <<"C", "l", "i", "n", "i", "c", "a", "l", " ", "r", "e", "v", "i", "e", "w">>

\* RISK_TO_ACTIONS.get(r, ["Clinical review"])
ActionsOf(r) == IF r \in DOMAIN RISK_TO_ACTIONS THEN RISK_TO_ACTIONS[r] ELSE <<CLINICAL_REVIEW>>

\* suggested.extend(...) over the risks, from index i
RECURSIVE Suggested(_, _)
Suggested(risks, i) ==
  IF i > Len(risks) THEN <<>> ELSE ActionsOf(risks[i]) \o Suggested(risks, i + 1)

\* the loop without its membership test
UniqueKeepingAll(acc, xs, i) == acc \o SubSeq(xs, i, Len(xs))

\* the order-preserving deduplication loop, from index i
RECURSIVE Unique(_, _, _)
Unique(acc, xs, i) ==
  IF i > Len(xs) THEN acc
  ELSE IF xs[i] \in Range(acc) THEN Unique(acc, xs, i + 1)
  ELSE Unique(Append(acc, xs[i]), xs, i + 1)

\* the digits of n left-padded with zeros to width w
RECURSIVE PadDigits(_, _)
PadDigits(n, w) ==
  IF w = 0 THEN <<>> ELSE PadDigits(n \div 10, w - 1) \o <<Chars[Ord["0"] + (n % 10)]>>

RECURSIVE StripZeros(_)
StripZeros(ds) ==
  IF ds # <<>> /\ ds[Len(ds)] = "0" THEN StripZeros(SubSeq(ds, 1, Len(ds) - 1)) ELSE ds

\* str(x) of the float m / 10^e (within the range repr prints positionally)
FloatStr(num) ==
  LET a    == IF num.m < 0 THEN 0 - num.m ELSE num.m
      frac == StripZeros(PadDigits(a % Pow10(num.e), num.e))
  IN  (IF num.m < 0 THEN <<"-">> ELSE <<>>) \o NatStr(a \div Pow10(num.e)) \o <<".">>
        \o (IF frac = <<>> THEN <<"0">> ELSE frac)

\* the index of the first parsed lab whose name starts with "hba1c", 0 when none
FirstHbA1c(parsed) ==
  IF \E i \in 1..Len(parsed) : StartsWith(Lower(ToStr(Or(parsed[i].name, Str(<<>>)))), <<"h", "b", "a", "1", "c">>)
    THEN CHOOSE i \in 1..Len(parsed) :
           /\ StartsWith(Lower(ToStr(Or(parsed[i].name, Str(<<>>)))), <<"h", "b", "a", "1", "c">>)
           /\ \A j \in 1..(i - 1) :
                ~StartsWith(Lower(ToStr(Or(parsed[j].name, Str(<<>>)))), <<"h", "b", "a", "1", "c">>)
    ELSE 0

\* hba1c = lab.get("numeric_value") or lab.get("raw_value"); some = FALSE is None
HbA1cText(parsed) ==
  IF FirstHbA1c(parsed) = 0 THEN [some |-> FALSE, s |-> <<>>]
  ELSE IF parsed[FirstHbA1c(parsed)].numeric_value.some
            /\ parsed[FirstHbA1c(parsed)].numeric_value.m # 0
    THEN [some |-> TRUE, s |-> FloatStr(parsed[FirstHbA1c(parsed)].numeric_value)]
  ELSE [some |-> TRUE, s |-> parsed[FirstHbA1c(parsed)].raw_value]

\* the summary of generate_report
Summary(insights, risks, hba1c) ==
  IF insights # <<>>
    THEN IF risks # <<>>
           THEN IF hba1c.some
                  THEN _shorten(insights[1] \o <<".", " ", "K", "e", "y", " ", "r", "i", "s", "k", "s", " ", "i", "n", "c", "l", "u", "d", "e", " ">> \o Join(<<",", " ">>, risks)
                                  \o <<";", " ", "H", "b", "A", "1", "c", " ">> \o hba1c.s \o <<" ", "%", ".">>, MAX_LEN)
                ELSE _shorten(insights[1] \o <<".", " ", "K", "e", "y", " ", "r", "i", "s", "k", "s", " ", "i", "n", "c", "l", "u", "d", "e", " ">> \o Join(<<",", " ">>, risks)
                                \o <<".">>, MAX_LEN)
         ELSE _shorten(insights[1], MAX_LEN)
  ELSE IF risks # <<>> THEN _shorten(<<"K", "e", "y", " ", "r", "i", "s", "k", "s", ":", " ">> \o Join(<<",", " ">>, risks), MAX_LEN)
  ELSE <<>>

\* a confidence that does not look at the risks
ConfidenceAlwaysLow(risks) == "low"

\* confidence = "medium" if risks else "low"
Confidence(risks) == IF risks # <<>> THEN "medium" ELSE "low"

\* the same lines, the last term first
SafetyWarningsReversed(terms) ==
  [i \in 1..Len(terms) |-> <<"F", "o", "r", "b", "i", "d", "d", "e", "n", " ", "t", "e", "r", "m", " ", "d", "e", "t", "e", "c", "t", "e", "d", ":", " ">> \o terms[Len(terms) + 1 - i]]

\* [f"Forbidden term detected: {t}" for t in safety.get("forbidden_terms")]
SafetyWarnings(terms) ==
  [i \in 1..Len(terms) |-> <<"F", "o", "r", "b", "i", "d", "d", "e", "n", " ", "t", "e", "r", "m", " ", "d", "e", "t", "e", "c", "t", "e", "d", ":", " ">> \o terms[i]]

\* generate_report(payload).  An optional key is a field with a has_ flag beside
\* it; meta.get("audit") is None for a missing key and for a None value alike.
generate_report(payload) ==
  LET risks    == payload.meta.risk_flags
      insights == KeyInsights(payload)
      unique   == Unique(<<>>, Suggested(risks, 1), 1)
      terms    == payload.meta.safety.forbidden_terms
  IN  [status     |-> "success",
       case_id    |-> "None",
       patient_id |-> "None",
       ai_output  |->
         [summary              |-> Summary(insights, risks, HbA1cText(payload.meta.parsed_labs)),
          key_insights         |-> insights,
          clinical_risks       |-> risks,
          suggested_next_steps |-> IF unique # <<>> THEN unique ELSE <<CLINICAL_REVIEW>>,
          confidence_level     |-> Confidence(risks),
          has_safety_warnings  |-> terms # <<>>,
          safety_warnings      |-> SafetyWarnings(terms)],
       has_audit  |-> payload.meta.has_audit,
       audit      |-> payload.meta.audit]


\* ------------------------------------------------------------------------
\* The requests the model submits
\* ------------------------------------------------------------------------

\* the most labs an investigation list of a first request holds
MaxLabs == 2

\* the instants a call can read from the clock
MaxTime == 2

HISTORY_KEY == <<"h", "i", "s", "t", "o", "r", "y">>

EXAMINATION_KEY == <<"e", "x", "a", "m", "i", "n", "a", "t", "i", "o", "n">>

INVESTIGATION_KEY == <<"i", "n", "v", "e", "s", "t", "i", "g", "a", "t", "i", "o", "n">>

\* a key that the request does not carry
Missing == [k |-> "missing", s |-> <<>>, n |-> 0, keys |-> <<>>, items |-> <<>>]

\* the history values of the requests
HistoryChoices ==
  <<
    \* the key is missing
    Missing,

    \* None
    \* null
    Null,

    \* a section with conditions out of order, two values that are textually normal,
    \* and a comment
    \* {"templates": [{"sections": [{"section_name": "Past History", "forms": [{"data": {"conditions": ["Type 2 Diabetes", "Hypertension", "normal"], "notes": " Normal ", "comments": "You should OPERATE"}}]}]}]}
    Dict(<<
           <<"t", "e", "m", "p", "l", "a", "t", "e", "s">> >>,
         <<
           List(<<
             Dict(<<
                    <<"s", "e", "c", "t", "i", "o", "n", "s">> >>,
                  <<
                    List(<<
                      Dict(<<
                             <<"s", "e", "c", "t", "i", "o", "n", "_", "n", "a", "m", "e">>,
                             <<"f", "o", "r", "m", "s">> >>,
                           <<
                             Str(<<"P", "a", "s", "t", " ", "H", "i", "s", "t", "o", "r", "y">>),
                             List(<<
                               Dict(<<
                                      <<"d", "a", "t", "a">> >>,
                                    <<
                                      Dict(<<
                                             <<"c", "o", "n", "d", "i", "t", "i", "o", "n", "s">>,
                                             <<"n", "o", "t", "e", "s">>,
                                             <<"c", "o", "m", "m", "e", "n", "t", "s">> >>,
                                           <<
                                             List(<<
                                               Str(<<"T", "y", "p", "e", " ", "2", " ", "D", "i", "a", "b", "e", "t", "e", "s">>),
                                               Str(<<"H", "y", "p", "e", "r", "t", "e", "n", "s", "i", "o", "n">>),
                                               Str(<<"n", "o", "r", "m", "a", "l">>) >>),
                                             Str(<<" ", "N", "o", "r", "m", "a", "l", " ">>),
                                             Str(<<"Y", "o", "u", " ", "s", "h", "o", "u", "l", "d", " ", "O", "P", "E", "R", "A", "T", "E">>) >>) >>) >>) >>) >>) >>) >>) >>),

    \* a template whose sections is None, after an entry that is skipped
    \* {"templates": ["x", {"sections": null}]}
    Dict(<<
           <<"t", "e", "m", "p", "l", "a", "t", "e", "s">> >>,
         <<
           List(<<
             Str(<<"x">>),
             Dict(<<
                    <<"s", "e", "c", "t", "i", "o", "n", "s">> >>,
                  <<
                    Null >>) >>) >>),

    \* direct data that is not a dict, entries the walker skips, and a list with items
    \* out of order, one twice and once more in upper case, and a normal item twice
    \* {"templates": [{"data": "x"}, {}, null, {"data": {"eyes": ["l eye", "normal", "L eye", "l eye", "normal"]}}]}
    Dict(<<
           <<"t", "e", "m", "p", "l", "a", "t", "e", "s">> >>,
         <<
           List(<<
             Dict(<<
                    <<"d", "a", "t", "a">> >>,
                  <<
                    Str(<<"x">>) >>),
             EmptyDict,
             Null,
             Dict(<<
                    <<"d", "a", "t", "a">> >>,
                  <<
                    Dict(<<
                           <<"e", "y", "e", "s">> >>,
                         <<
                           List(<<
                             Str(<<"l", " ", "e", "y", "e">>),
                             Str(<<"n", "o", "r", "m", "a", "l">>),
                             Str(<<"L", " ", "e", "y", "e">>),
                             Str(<<"l", " ", "e", "y", "e">>),
                             Str(<<"n", "o", "r", "m", "a", "l">>) >>) >>) >>) >>) >>),

    \* a label with empty parentheses, a value that holds the word normal, and a field
    \* name that is a forbidden term
    \* {"templates": [{"forms": [{"data": {"lens": "Abnormal"}}]}, {"sections": [{"section_name": "Past ()", "forms": [{"data": {"bp": "120/80", "x": "", "operate": "L eye"}}]}]}]}
    Dict(<<
           <<"t", "e", "m", "p", "l", "a", "t", "e", "s">> >>,
         <<
           List(<<
             Dict(<<
                    <<"f", "o", "r", "m", "s">> >>,
                  <<
                    List(<<
                      Dict(<<
                             <<"d", "a", "t", "a">> >>,
                           <<
                             Dict(<<
                                    <<"l", "e", "n", "s">> >>,
                                  <<
                                    Str(<<"A", "b", "n", "o", "r", "m", "a", "l">>) >>) >>) >>) >>),
             Dict(<<
                    <<"s", "e", "c", "t", "i", "o", "n", "s">> >>,
                  <<
                    List(<<
                      Dict(<<
                             <<"s", "e", "c", "t", "i", "o", "n", "_", "n", "a", "m", "e">>,
                             <<"f", "o", "r", "m", "s">> >>,
                           <<
                             Str(<<"P", "a", "s", "t", " ", "(", ")">>),
                             List(<<
                               Dict(<<
                                      <<"d", "a", "t", "a">> >>,
                                    <<
                                      Dict(<<
                                             <<"b", "p">>,
                                             <<"x">>,
                                             <<"o", "p", "e", "r", "a", "t", "e">> >>,
                                           <<
                                             Str(<<"1", "2", "0", "/", "8", "0">>),
                                             Str(<<>>),
                                             Str(<<"L", " ", "e", "y", "e">>) >>) >>) >>) >>) >>) >>) >>) >>)
  >>

\* the examination values of the requests
ExaminationChoices ==
  <<
    \* the key is missing
    Missing,

    \* the misspelt templetes key, a laterality label and a phthisis finding
    \* {"templetes": [{"sections": [{"sectionname": "Right Eye (R/OD)", "forms": [{"data": {"appearance_symptoms": ["Phthisis Bulbi"], "comments": ""}}]}]}]}
    Dict(<<
           <<"t", "e", "m", "p", "l", "e", "t", "e", "s">> >>,
         <<
           List(<<
             Dict(<<
                    <<"s", "e", "c", "t", "i", "o", "n", "s">> >>,
                  <<
                    List(<<
                      Dict(<<
                             <<"s", "e", "c", "t", "i", "o", "n", "n", "a", "m", "e">>,
                             <<"f", "o", "r", "m", "s">> >>,
                           <<
                             Str(<<"R", "i", "g", "h", "t", " ", "E", "y", "e", " ", "(", "R", "/", "O", "D", ")">>),
                             List(<<
                               Dict(<<
                                      <<"d", "a", "t", "a">> >>,
                                    <<
                                      Dict(<<
                                             <<"a", "p", "p", "e", "a", "r", "a", "n", "c", "e", "_", "s", "y", "m", "p", "t", "o", "m", "s">>,
                                             <<"c", "o", "m", "m", "e", "n", "t", "s">> >>,
                                           <<
                                             List(<<
                                               Str(<<"P", "h", "t", "h", "i", "s", "i", "s", " ", "B", "u", "l", "b", "i">>) >>),
                                             Str(<<>>) >>) >>) >>) >>) >>) >>) >>) >>),

    \* an underscore-joined laterality label
    \* {"templates": [{"sections": [{"section_name": "right_eye", "forms": [{"data": {"posterior_segment": "Mild NPDR", "misc": "normal"}}]}]}]}
    Dict(<<
           <<"t", "e", "m", "p", "l", "a", "t", "e", "s">> >>,
         <<
           List(<<
             Dict(<<
                    <<"s", "e", "c", "t", "i", "o", "n", "s">> >>,
                  <<
                    List(<<
                      Dict(<<
                             <<"s", "e", "c", "t", "i", "o", "n", "_", "n", "a", "m", "e">>,
                             <<"f", "o", "r", "m", "s">> >>,
                           <<
                             Str(<<"r", "i", "g", "h", "t", "_", "e", "y", "e">>),
                             List(<<
                               Dict(<<
                                      <<"d", "a", "t", "a">> >>,
                                    <<
                                      Dict(<<
                                             <<"p", "o", "s", "t", "e", "r", "i", "o", "r", "_", "s", "e", "g", "m", "e", "n", "t">>,
                                             <<"m", "i", "s", "c">> >>,
                                           <<
                                             Str(<<"M", "i", "l", "d", " ", "N", "P", "D", "R">>),
                                             Str(<<"n", "o", "r", "m", "a", "l">>) >>) >>) >>) >>) >>) >>) >>) >>),

    \* a form that is None
    \* {"templates": [{"forms": [null]}]}
    Dict(<<
           <<"t", "e", "m", "p", "l", "a", "t", "e", "s">> >>,
         <<
           List(<<
             Dict(<<
                    <<"f", "o", "r", "m", "s">> >>,
                  <<
                    List(<<
                      Null >>) >>) >>) >>),

    \* a label without laterality and with empty parentheses
    \* {"templates": [{"sections": [{"section_name": "Lids ()", "forms": [{"data": {"normal_reflex": 1, "lids": ["normal", "Ptosis"]}}]}]}]}
    Dict(<<
           <<"t", "e", "m", "p", "l", "a", "t", "e", "s">> >>,
         <<
           List(<<
             Dict(<<
                    <<"s", "e", "c", "t", "i", "o", "n", "s">> >>,
                  <<
                    List(<<
                      Dict(<<
                             <<"s", "e", "c", "t", "i", "o", "n", "_", "n", "a", "m", "e">>,
                             <<"f", "o", "r", "m", "s">> >>,
                           <<
                             Str(<<"L", "i", "d", "s", " ", "(", ")">>),
                             List(<<
                               Dict(<<
                                      <<"d", "a", "t", "a">> >>,
                                    <<
                                      Dict(<<
                                             <<"n", "o", "r", "m", "a", "l", "_", "r", "e", "f", "l", "e", "x">>,
                                             <<"l", "i", "d", "s">> >>,
                                           <<
                                             Num(1),
                                             List(<<
                                               Str(<<"n", "o", "r", "m", "a", "l">>),
                                               Str(<<"P", "t", "o", "s", "i", "s">>) >>) >>) >>) >>) >>) >>) >>) >>) >>)
  >>

\* the entries of the investigation lists
LabChoices ==
  <<
    \* a lab
    \* {"name": "HbA1c", "value": "8.2", "unit": "%", "reference": "4.0-5.6"}
    Dict(<<
           <<"n", "a", "m", "e">>,
           <<"v", "a", "l", "u", "e">>,
           <<"u", "n", "i", "t">>,
           <<"r", "e", "f", "e", "r", "e", "n", "c", "e">> >>,
         <<
           Str(<<"H", "b", "A", "1", "c">>),
           Str(<<"8", ".", "2">>),
           Str(<<"%">>),
           Str(<<"4", ".", "0", "-", "5", ".", "6">>) >>),

    \* a lab
    \* {"name": "HbA1c", "value": "7.8"}
    Dict(<<
           <<"n", "a", "m", "e">>,
           <<"v", "a", "l", "u", "e">> >>,
         <<
           Str(<<"H", "b", "A", "1", "c">>),
           Str(<<"7", ".", "8">>) >>),

    \* a lab
    \* {"name": "HbA1c", "value": "high"}
    Dict(<<
           <<"n", "a", "m", "e">>,
           <<"v", "a", "l", "u", "e">> >>,
         <<
           Str(<<"H", "b", "A", "1", "c">>),
           Str(<<"h", "i", "g", "h">>) >>),

    \* a lab
    \* {"name": "Random Glucose", "value": " Normal ", "unit": "mg/dL"}
    Dict(<<
           <<"n", "a", "m", "e">>,
           <<"v", "a", "l", "u", "e">>,
           <<"u", "n", "i", "t">> >>,
         <<
           Str(<<"R", "a", "n", "d", "o", "m", " ", "G", "l", "u", "c", "o", "s", "e">>),
           Str(<<" ", "N", "o", "r", "m", "a", "l", " ">>),
           Str(<<"m", "g", "/", "d", "L">>) >>),

    \* an entry that is not a dict
    \* "not_a_dict"
    Str(<<"n", "o", "t", "_", "a", "_", "d", "i", "c", "t">>)
  >>

\* HbA1c labs with a numeric value >= 8.0, for the follow-up request
HighLabs ==
  <<
    \* a lab
    \* {"name": "HbA1c", "value": "8.5", "unit": "%"}
    Dict(<<
           <<"n", "a", "m", "e">>,
           <<"v", "a", "l", "u", "e">>,
           <<"u", "n", "i", "t">> >>,
         <<
           Str(<<"H", "b", "A", "1", "c">>),
           Str(<<"8", ".", "5">>),
           Str(<<"%">>) >>),

    \* a lab
    \* {"name": "hba1c level", "value": 10}
    Dict(<<
           <<"n", "a", "m", "e">>,
           <<"v", "a", "l", "u", "e">> >>,
         <<
           Str(<<"h", "b", "a", "1", "c", " ", "l", "e", "v", "e", "l">>),
           Num(10) >>)
  >>

\* the lists of at most n labs
RECURSIVE LabLists(_)
LabLists(n) ==
  IF n = 0 THEN {<<>>}
  ELSE LabLists(n - 1)
         \cup {Append(ls, LabChoices[i]) : ls \in {l \in LabLists(n - 1) : Len(l) = n - 1},
                                           i \in 1..Len(LabChoices)}

\* the investigation values with at most n labs: a list of labs, None, or missing
InvestigationsOf(n) == {List(ls) : ls \in LabLists(n)} \cup {Null, Missing}

\* the investigation values of the requests
InvestigationChoices == InvestigationsOf(MaxLabs)

\* the dict of the keys that are not missing
MakeContext(h, e, i) ==
  LET all  == << <<HISTORY_KEY, h>>, <<EXAMINATION_KEY, e>>, <<INVESTIGATION_KEY, i>> >>
      kept == SelectSeq(all, LAMBDA kv : kv[2] # Missing)
  IN  Dict([j \in 1..Len(kept) |-> kept[j][1]], [j \in 1..Len(kept) |-> kept[j][2]])

\* Every history beside the examination that yields a finding and a risk flag
\* (the second), and every examination beside the history that does (the third).
\* These pairs come with the investigations of one lab less than the longest;
\* the request without history comes with every investigation.
Contexts ==
  {MakeContext(HistoryChoices[p[1]], ExaminationChoices[p[2]], i) :
     p \in {q \in (1..Len(HistoryChoices)) \X (1..Len(ExaminationChoices)) :
              q[1] = 3 \/ q[2] = 2},
     i \in InvestigationsOf(MaxLabs - 1)}
    \cup {MakeContext(HistoryChoices[1], ExaminationChoices[2], i) :
            i \in InvestigationChoices}

\* the request with one more lab at the end of its investigation list
WithLab(ctx, lab) ==
  [ctx EXCEPT !.items =
     [j \in 1..Len(ctx.items) |->
        IF ctx.keys[j] = INVESTIGATION_KEY
          THEN List(Append(ctx.items[j].items, lab))
          ELSE ctx.items[j]]]

\* ------------------------------------------------------------------------
\* State
\* ------------------------------------------------------------------------

VARIABLES
  pc,               \* where the caller and build_llm_payload stand
  context,          \* the request passed to build_llm_payload
  audit,            \* the audit dict of the call
  safety,           \* the result of check_forbidden_terms
  history_findings,
  exam_findings,
  lab_findings,
  parsed_labs,
  risk_flags,
  adds,             \* the findings.add / findings.append calls of the call
  payload,          \* what build_llm_payload returned
  report,           \* what generate_report returned
  mode,             \* "first", or how the follow-up request was made
  prev,             \* the payload of the first call, once a follow-up is made
  section_name,     \* the argument of normalize_section_label
  label,            \* the label normalize_section_label returned, or _extract_data was given
  data,             \* the data group given to _extract_data
  findings,         \* the findings set given to _extract_data
  on_entry,         \* findings and audit as they were when _extract_data was called
  request,          \* the HTTP request given to analyze
  response,         \* the HTTP response analyze returned
  templates,        \* the templates argument of _process_templates
  calls,            \* the locals of each of several invocations in progress
  heap,             \* the audit dicts the invocations created, by reference
  tables            \* the module-level FORBIDDEN_TERMS and RISK_TO_ACTIONS objects

vars ==
  << pc, context, audit, safety, history_findings, exam_findings, lab_findings,
     parsed_labs, risk_flags, adds, payload, report, mode, prev, section_name,
     label, data, findings, on_entry, request, response, templates, calls, heap, tables >>

callVars ==
  << audit, safety, history_findings, exam_findings, lab_findings, parsed_labs,
     risk_flags, adds, payload >>

unitVars ==
  << section_name, label, data, findings, on_entry, request, response, templates, calls,
     heap, tables >>

\* a payload that has not been built
NoPayload ==
  [clinical_context |-> [high_priority |-> <<>>, medium_priority |-> <<>>, low_priority |-> <<>>],
   meta |-> [generated_at |-> 0, version |-> "none", risk_flags |-> <<>>,
             has_audit |-> FALSE, audit |-> NewAudit,
             safety |-> [forbidden_terms |-> <<>>], parsed_labs |-> <<>>]]

\* a report that has not been generated
NoReport ==
  [status |-> "none", case_id |-> "None", patient_id |-> "None",
   ai_output |-> [summary |-> <<>>, key_insights |-> <<>>, clinical_risks |-> <<>>,
                  suggested_next_steps |-> <<>>, confidence_level |-> "none",
                  has_safety_warnings |-> FALSE, safety_warnings |-> <<>>],
   has_audit |-> FALSE, audit |-> NewAudit]

\* no request yet; the body of a request is bytes that json.loads parses or not
NoRequest == [method |-> "none", parsable |-> FALSE, json |-> Null]

\* no response yet.  A response is a status code and the JSON object in it: an
\* absent key is None, or a has_ flag beside it
NoResponse ==
  [status_code |-> 0, error |-> "none", status |-> "none", case_id |-> Null,
   patient_id |-> Null, ai_output |-> NoReport.ai_output, has_ai_output |-> FALSE,
   has_meta |-> FALSE]

\* the module-level objects as the import of the two modules leaves them
MODULE_TABLES == [FORBIDDEN_TERMS |-> FORBIDDEN_TERMS, RISK_TO_ACTIONS |-> RISK_TO_ACTIONS]

\* no _process_templates call on its own and no invocations side by side
ManyIdle ==
  /\ templates = Null
  /\ calls = <<>>
  /\ heap = <<>>
  /\ tables = MODULE_TABLES

\* the locals of a call before its first statement
CallReset ==
  /\ audit = NewAudit
  /\ safety = [forbidden_terms |-> <<>>]
  /\ history_findings = <<>>
  /\ exam_findings = <<>>
  /\ lab_findings = <<>>
  /\ parsed_labs = <<>>
  /\ risk_flags = <<>>
  /\ adds = <<>>
  /\ payload = NoPayload

UnitIdle ==
  /\ section_name = Null
  /\ label = <<>>
  /\ data = Null
  /\ findings = {}
  /\ on_entry = [findings |-> {}, audit |-> NewAudit]
  /\ request = NoRequest
  /\ response = NoResponse
  /\ ManyIdle

Init ==
  /\ pc = "start"
  /\ context \in Contexts
  /\ CallReset
  /\ report = NoReport
  /\ mode = "first"
  /\ prev = NoPayload
  /\ UnitIdle

\* ------------------------------------------------------------------------
\* build_llm_payload, one action per statement, and generate_report
\* ------------------------------------------------------------------------

\* context.get("history", {}), context.get("examination", {}), context.get("investigation", [])
history == Get(context, HISTORY_KEY, EmptyDict)

examination == Get(context, EXAMINATION_KEY, EmptyDict)

investigation == Get(context, INVESTIGATION_KEY, EmptyList)

\* audit = {...}; safety = check_forbidden_terms(context)
CheckForbiddenTerms ==
  /\ pc = "start"
  /\ \E order \in Perms(Scan(context)) : safety' = [forbidden_terms |-> sorted(order)]
  /\ audit' = NewAudit
  /\ pc' = "history"
  /\ UNCHANGED << context, history_findings, exam_findings, lab_findings, parsed_labs,
                  risk_flags, adds, payload, report, mode, prev, unitVars >>

\* history_findings = extract_history_findings(history, audit=audit)
ExtractHistoryFindings ==
  /\ pc = "history"
  /\ LET st == HistoryRun(history, audit)
     IN  IF st.raised
           THEN pc' = "raised" /\ UNCHANGED << history_findings, audit, adds >>
           ELSE /\ \E order \in Perms(st.findings) : history_findings' = sorted(order)
                /\ audit' = st.audit
                /\ adds' = adds \o st.adds
                /\ pc' = "examination"
  /\ UNCHANGED << context, safety, exam_findings, lab_findings, parsed_labs, risk_flags,
                  payload, report, mode, prev, unitVars >>

\* exam_findings = extract_examination_findings(examination, audit=audit)
ExtractExaminationFindings ==
  /\ pc = "examination"
  /\ LET st == ExaminationRun(examination, audit)
     IN  IF st.raised
           THEN pc' = "raised" /\ UNCHANGED << exam_findings, audit, adds >>
           ELSE /\ \E order \in Perms(st.findings) : exam_findings' = sorted(order)
                /\ audit' = st.audit
                /\ adds' = adds \o st.adds
                /\ pc' = "investigation"
  /\ UNCHANGED << context, safety, history_findings, lab_findings, parsed_labs, risk_flags,
                  payload, report, mode, prev, unitVars >>

\* lab_findings = extract_investigation_findings(investigation, audit=audit)
ExtractInvestigationFindings ==
  /\ pc = "investigation"
  /\ LET st == InvestigationRun(investigation, audit)
     IN  /\ lab_findings' = FindingsList(st)
         /\ audit' = st.audit
         /\ adds' = adds \o st.adds
  /\ pc' = "parse"
  /\ UNCHANGED << context, safety, history_findings, exam_findings, parsed_labs, risk_flags,
                  payload, report, mode, prev, unitVars >>

\* parsed_labs = parse_investigations(investigation, audit=audit)
ParseInvestigations ==
  /\ pc = "parse"
  /\ LET st == parse_investigations(investigation, audit)
     IN  /\ parsed_labs' = st.parsed
         /\ audit' = st.audit
  /\ pc' = "risks"
  /\ UNCHANGED << context, safety, history_findings, exam_findings, lab_findings, risk_flags,
                  adds, payload, report, mode, prev, unitVars >>

\* risk_flags = derive_clinical_risks(history_findings, exam_findings, parsed_labs)
DeriveClinicalRisks ==
  /\ pc = "risks"
  /\ LET st == RiskRun(history_findings, exam_findings, parsed_labs)
     IN  IF st.raised
           THEN pc' = "raised" /\ UNCHANGED risk_flags
           ELSE /\ \E order \in Perms(st.risks) : risk_flags' = sorted(order)
                /\ pc' = "prioritize"
  /\ UNCHANGED << context, audit, safety, history_findings, exam_findings, lab_findings,
                  parsed_labs, adds, payload, report, mode, prev, unitVars >>

\* prioritized_context = prioritize_context(...); return {...}
\* datetime.utcnow() reads the clock: any instant
Return ==
  /\ pc = "prioritize"
  /\ \E now \in 1..MaxTime :
       payload' =
         [clinical_context |->
            prioritize_context(history_findings, exam_findings, lab_findings, risk_flags),
          meta |-> [generated_at |-> now, version |-> "1.0.0", risk_flags |-> risk_flags,
                    has_audit |-> TRUE, audit |-> audit, safety |-> safety,
                    parsed_labs |-> parsed_labs]]
  /\ pc' = "returned"
  /\ UNCHANGED << context, audit, safety, history_findings, exam_findings, lab_findings,
                  parsed_labs, risk_flags, adds, report, mode, prev, unitVars >>

\* report = generate_report(payload)
GenerateReport ==
  /\ pc = "returned"
  /\ report' = generate_report(payload)
  /\ pc' = "reported"
  /\ UNCHANGED << context, callVars, mode, prev, unitVars >>

\* the caller keeps the payload and starts a new call
NewCall ==
  /\ prev' = payload
  /\ pc' = "start"
  /\ audit' = NewAudit
  /\ safety' = [forbidden_terms |-> <<>>]
  /\ history_findings' = <<>>
  /\ exam_findings' = <<>>
  /\ lab_findings' = <<>>
  /\ parsed_labs' = <<>>
  /\ risk_flags' = <<>>
  /\ adds' = <<>>
  /\ payload' = NoPayload
  /\ report' = NoReport
  /\ UNCHANGED unitVars

\* the caller submits the same request once more
CallAgain ==
  /\ pc = "reported"
  /\ mode = "first"
  /\ mode' = "again"
  /\ context' = context
  /\ NewCall

\* the caller submits the request with one more HbA1c lab, of a value >= 8.0, at
\* the end of its investigation list
CallWithLab ==
  /\ pc = "reported"
  /\ mode = "first"
  /\ HasKey(context, INVESTIGATION_KEY)
  /\ IsList(investigation)
  /\ \E i \in 1..Len(HighLabs) : context' = WithLab(context, HighLabs[i])
  /\ mode' = "appended"
  /\ NewCall

Next ==
  \/ CheckForbiddenTerms
  \/ ExtractHistoryFindings
  \/ ExtractExaminationFindings
  \/ ExtractInvestigationFindings
  \/ ParseInvestigations
  \/ DeriveClinicalRisks
  \/ Return
  \/ GenerateReport
  \/ CallAgain
  \/ CallWithLab

Spec == Init /\ [][Next]_vars

\* ------------------------------------------------------------------------
\* normalize_section_label on its own
\* ------------------------------------------------------------------------

\* the most tokens a section label is made of
MaxTokens == 2

LabelTokens ==
  << <<"r", "i", "g", "h", "t">>, <<"R", "i", "g", "h", "t">>, <<"l", "e", "f", "t">>, <<"E", "y", "e">>, <<"(", "R", "/", "O", "D", ")">>, <<"(", "L", "/", "O", "S", ")">>, <<"l", "-">>, <<"l", "e", "n", "s">> >>

LabelSeparators == << <<" ">>, <<"_">>, <<"-">> >>

\* the labels of at most n tokens, a separator between two tokens
RECURSIVE Labels(_)
Labels(n) ==
  IF n = 1 THEN Range(LabelTokens)
  ELSE Labels(n - 1)
         \cup {l \o sep \o tok : l \in Labels(n - 1), sep \in Range(LabelSeparators),
                                tok \in Range(LabelTokens)}

\* the arguments: labels, and values that are not a str
SectionNames == {Str(l) : l \in Labels(MaxTokens)} \cup {Null, Num(5)}

\* the pipeline variables of a specification that runs no pipeline
PipelineIdle ==
  /\ context = EmptyDict
  /\ safety = [forbidden_terms |-> <<>>]
  /\ history_findings = <<>>
  /\ exam_findings = <<>>
  /\ lab_findings = <<>>
  /\ parsed_labs = <<>>
  /\ risk_flags = <<>>
  /\ report = NoReport
  /\ mode = "first"
  /\ prev = NoPayload

InitLabel ==
  /\ pc = "label"
  /\ section_name \in SectionNames
  /\ label = <<>>
  /\ data = Null
  /\ findings = {}
  /\ on_entry = [findings |-> {}, audit |-> NewAudit]
  /\ request = NoRequest
  /\ response = NoResponse
  /\ ManyIdle
  /\ audit = NewAudit
  /\ adds = <<>>
  /\ payload = NoPayload
  /\ PipelineIdle

\* label = normalize_section_label(section_name)
NormalizeSectionLabel ==
  /\ pc = "label"
  /\ label' = normalize_section_label(section_name)
  /\ pc' = "labelled"
  /\ UNCHANGED << context, callVars, report, mode, prev, section_name, data, findings, on_entry,
                  request, response, templates, calls, heap, tables >>

\* label = normalize_section_label(label): the label is normalised once more
NormalizeAgain ==
  /\ pc = "labelled"
  /\ label' = normalize_section_label(Str(label))
  /\ pc' = "relabelled"
  /\ UNCHANGED << context, callVars, report, mode, prev, section_name, data, findings, on_entry,
                  request, response, templates, calls, heap, tables >>

NextLabel ==
  \/ NormalizeSectionLabel
  \/ NormalizeAgain

SpecLabel == InitLabel /\ [][NextLabel]_vars

\* ------------------------------------------------------------------------
\* _extract_data on its own
\* ------------------------------------------------------------------------

\* the most fields a data group holds
MaxFields == 2

FieldKeys == << <<"c", "o", "m", "m", "e", "n", "t", "s">>, <<"C", "o", "m", "m", "e", "n", "t", "s">>, <<"b", "p">>, <<"e", "y", "e", "_", "l", "i", "d", "s">> >>

FieldValues ==
  << Null,
     Str(<<>>),
     Str(<<"n", "o", "r", "m", "a", "l">>),
     Str(<<"P", "t", "o", "s", "i", "s">>),
     EmptyList,
     List(<< Str(<<"a">>), Str(<<" ", "N", "o", "r", "m", "a", "l", " ">>) >>),
     List(<< Str(<<"a">>), Str(<<"a">>) >>) >>

\* the dicts of at most n fields with distinct keys
RECURSIVE Groups(_)
Groups(n) ==
  IF n = 0 THEN {EmptyDict}
  ELSE Groups(n - 1)
         \cup {Dict(Append(g.keys, FieldKeys[k]), Append(g.items, FieldValues[v])) :
                 g \in {d \in Groups(n - 1) : Len(d.keys) = n - 1},
                 k \in 1..Len(FieldKeys), v \in 1..Len(FieldValues)}

\* the data arguments: dicts with distinct keys, and values that are not a dict
DataGroups ==
  {g \in Groups(MaxFields) : \A i, j \in 1..Len(g.keys) : i # j => g.keys[i] # g.keys[j]}
    \cup {Null, Str(<<"x">>)}

\* an audit that holds an entry of an earlier step
EarlierAudit == [discarded |-> << <<"H", "i", "s", "t", "o", "r", "y", ":", " ", "d", "a", "t", "a", " ", "n", "o", "t", " ", "a", " ", "d", "i", "c", "t">> >>, warnings |-> <<>>]

InitExtract ==
  /\ pc = "extract"
  /\ data \in DataGroups
  /\ label = <<"H", "i", "s", "t", "o", "r", "y">>
  /\ findings \in {{}, {<<"H", "i", "s", "t", "o", "r", "y", ":", " ", "a">>}}
  /\ audit \in {NewAudit, EarlierAudit}
  /\ on_entry = [findings |-> {}, audit |-> NewAudit]
  /\ request = NoRequest
  /\ response = NoResponse
  /\ ManyIdle
  /\ adds = <<>>
  /\ section_name = Null
  /\ payload = NoPayload
  /\ PipelineIdle

\* _extract_data(findings, data, label, audit=audit)
ExtractData ==
  /\ pc = "extract"
  /\ LET st == _extract_data([NewRun(audit) EXCEPT !.findings = findings], data, label)
     IN  /\ findings' = st.findings
         /\ audit' = st.audit
         /\ adds' = st.adds
  /\ on_entry' = [findings |-> findings, audit |-> audit]
  /\ pc' = "extracted"
  /\ UNCHANGED << context, safety, history_findings, exam_findings, lab_findings, parsed_labs,
                  risk_flags, payload, report, mode, prev, section_name, label, data,
                  request, response, templates, calls, heap, tables >>

NextExtract == ExtractData

SpecExtract == InitExtract /\ [][NextExtract]_vars

\* ------------------------------------------------------------------------
\* generate_report on its own
\* ------------------------------------------------------------------------

\* the most findings a bucket of a payload holds
MaxFindings == 3

\* MAX_LEN - 1 characters that two findings share
LongPrefix == [i \in 1..(MAX_LEN - 1) |-> "x"]

\* findings as the extractors emit them, a risk flag as high_priority holds it,
\* and an empty str
FindingPool ==
  << <<"R", "i", "g", "h", "t", " ", "E", "y", "e", ":", " ", "P", "h", "t", "h", "i", "s", "i", "s", " ", "B", "u", "l", "b", "i">>,
     <<"p", "o", "o", "r", " ", "g", "l", "y", "c", "e", "m", "i", "c", " ", "c", "o", "n", "t", "r", "o", "l">>,
     <<"H", "b", "A", "1", "c", ":", " ", "8", ".", "2", " ", "%", " ", "(", "r", "e", "f", " ", "4", ".", "0", "-", "5", ".", "6", ")">>,
     <<"H", "b", "A", "1", "c", ":", " ", "7", ".", "0", " ", "%">>,
     <<"G", "e", "n", "e", "r", "a", "l", " ", "b", "l", "o", "o", "d", " ", "p", "r", "e", "s", "s", "u", "r", "e", ":", " ", "1", "2", "0", "/", "8", "0">>,
     LongPrefix \o <<" ", "l", "e", "f", "t">>,
     LongPrefix \o <<" ", "r", "i", "g", "h", "t">>,
     <<>>,
     <<"H", "i", "s", "t", "o", "r", "y", " ", "l", "e", "n", "s", ":", " ", "A", "b", "n", "o", "r", "m", "a", "l">>,
     <<"L", "e", "f", "t", " ", "E", "y", "e", " ", "l", "i", "d", "s", ":", " ", "P", "t", "o", "s", "i", "s">> >>

\* n findings of the pool from index a on, cyclically
Window(a, n) == [i \in 1..n |-> FindingPool[((a + i - 2) % Len(FindingPool)) + 1]]

\* the buckets: consecutive windows of the pool, of at most n findings each
Buckets(n) ==
  {[high_priority   |-> Window(a, h),
    medium_priority |-> Window(a + h, m),
    low_priority    |-> Window(a + h + m, l)] :
     a \in 1..Len(FindingPool), h \in 0..n, m \in 0..n, l \in 0..n}

RiskFlagChoices ==
  { <<>>,
    <<POOR_GLYCEMIC>>,
    <<LONG_DIABETES, POOR_GLYCEMIC, SINGLE_EYE>>,
    << <<"f", "a", "l", "l", "s">>, SINGLE_EYE, <<"d", "i", "z", "z", "i", "n", "e", "s", "s">> >> }

SafetyChoices == { <<>>, << <<"o", "p", "e", "r", "a", "t", "e">>, <<"y", "o", "u", " ", "s", "h", "o", "u", "l", "d">> >> }

\* a parsed HbA1c lab of 8.2, as parse_investigations returns it
ParsedChoices ==
  { <<>>,
    << [name |-> Str(<<"H", "b", "A", "1", "c">>), raw_value |-> <<"8", ".", "2">>,
        numeric_value |-> [some |-> TRUE, m |-> 82, e |-> 1],
        unit |-> Str(<<"%">>), reference |-> Null] >> }

ReportPayload(ctx, rs, ts, ps, au) ==
  [clinical_context |-> ctx,
   meta |-> [generated_at |-> 1, version |-> "1.0.0", risk_flags |-> rs,
             has_audit |-> au, audit |-> NewAudit,
             safety |-> [forbidden_terms |-> ts], parsed_labs |-> ps]]

\* payloads as build_llm_payload lays them out, and as a caller may build them
\* (meta.audit is optional): every window of findings without risk flags, every
\* kind of meta with at most one finding, and every kind of risk flags with
\* full buckets
ReportPayloads ==
  {ReportPayload(ctx, <<>>, <<>>, <<>>, TRUE) : ctx \in Buckets(MaxFindings)}
    \cup {ReportPayload(ctx, rs, ts, ps, au) :
            ctx \in {c \in Buckets(1) :
                       Len(c.high_priority) + Len(c.medium_priority) + Len(c.low_priority) <= 1},
            rs \in RiskFlagChoices, ts \in SafetyChoices, ps \in ParsedChoices,
            au \in BOOLEAN}
    \cup {ReportPayload(ctx, rs, <<>>, <<>>, TRUE) :
            ctx \in {c \in Buckets(MaxFindings) :
                       /\ Len(c.high_priority) = MaxFindings
                       /\ Len(c.medium_priority) = MaxFindings
                       /\ Len(c.low_priority) = MaxFindings},
            rs \in RiskFlagChoices}

InitReport ==
  /\ pc = "returned"
  /\ payload \in ReportPayloads
  /\ context = EmptyDict
  /\ audit = payload.meta.audit
  /\ safety = payload.meta.safety
  /\ history_findings = payload.clinical_context.low_priority
  /\ exam_findings = payload.clinical_context.high_priority
  /\ lab_findings = payload.clinical_context.medium_priority
  /\ parsed_labs = payload.meta.parsed_labs
  /\ risk_flags = payload.meta.risk_flags
  /\ adds = <<>>
  /\ report = NoReport
  /\ mode = "first"
  /\ prev = NoPayload
  /\ UnitIdle

NextReport == GenerateReport

SpecReport == InitReport /\ [][NextReport]_vars

\* ------------------------------------------------------------------------
\* The analyze endpoint
\* ------------------------------------------------------------------------

\* the mocked data of the view
MOCK_HISTORY ==
  Dict(<< <<"c", "h", "i", "e", "f", "_", "c", "o", "m", "p", "l", "a", "i", "n", "t">>, <<"p", "a", "s", "t", "_", "h", "i", "s", "t", "o", "r", "y">> >>,
       << Str(<<"B", "l", "u", "r", "r", "e", "d", " ", "v", "i", "s", "i", "o", "n">>), List(<< Str(<<"D", "i", "a", "b", "e", "t", "e", "s", " ", "M", "e", "l", "l", "i", "t", "u", "s">>) >>) >>)

MOCK_EXAMINATION ==
  Dict(<< <<"r", "i", "g", "h", "t", "_", "e", "y", "e">>, <<"l", "e", "f", "t", "_", "e", "y", "e">> >>,
       << Str(<<"R", "e", "d", "u", "c", "e", "d", " ", "v", "i", "s", "u", "a", "l", " ", "a", "c", "u", "i", "t", "y">>), Str(<<"N", "o", "r", "m", "a", "l">>) >>)

MOCK_INVESTIGATION ==
  Dict(<< <<"H", "b", "A", "1", "c">>, <<"F", "B", "S">> >>, << Str(<<"8", ".", "2", "%">>), Str(<<"1", "6", "0", " ", "m", "g", "/", "d", "L">>) >>)

\* the mocked LLM response of the view
MOCK_AI_OUTPUT ==
  [summary              |-> <<"P", "a", "t", "i", "e", "n", "t", " ", "p", "r", "e", "s", "e", "n", "t", "s", " ", "w", "i", "t", "h", " ", "b", "l", "u", "r", "r", "e", "d", " ", "v", "i", "s", "i", "o", "n", " ", "a", "n", "d", " ", "a", " ", "h", "i", "s", "t", "o", "r", "y", " ", "o", "f", " ", "d", "i", "a", "b", "e", "t", "e", "s", ".">>,
   key_insights         |-> << <<"C", "h", "r", "o", "n", "i", "c", " ", "d", "i", "a", "b", "e", "t", "e", "s", " ", "w", "i", "t", "h", " ", "p", "o", "o", "r", " ", "g", "l", "y", "c", "e", "m", "i", "c", " ", "c", "o", "n", "t", "r", "o", "l">>,
                               <<"V", "i", "s", "u", "a", "l", " ", "s", "y", "m", "p", "t", "o", "m", "s", " ", "m", "a", "y", " ", "b", "e", " ", "d", "i", "a", "b", "e", "t", "e", "s", "-", "r", "e", "l", "a", "t", "e", "d">> >>,
   clinical_risks       |-> << <<"R", "i", "s", "k", " ", "o", "f", " ", "d", "i", "a", "b", "e", "t", "i", "c", " ", "r", "e", "t", "i", "n", "o", "p", "a", "t", "h", "y">> >>,
   suggested_next_steps |-> << <<"D", "e", "t", "a", "i", "l", "e", "d", " ", "r", "e", "t", "i", "n", "a", "l", " ", "e", "x", "a", "m", "i", "n", "a", "t", "i", "o", "n">>,
                               <<"O", "p", "t", "i", "m", "i", "z", "e", " ", "b", "l", "o", "o", "d", " ", "g", "l", "u", "c", "o", "s", "e", " ", "c", "o", "n", "t", "r", "o", "l">> >>,
   confidence_level     |-> "medium",
   has_safety_warnings  |-> FALSE,
   safety_warnings      |-> <<>>]

\* build_llm_payload on the mocked data raises or not; what it returns is not used
MockCallRaises ==
  \/ HistoryRun(MOCK_HISTORY, NewAudit).raised
  \/ ExaminationRun(MOCK_EXAMINATION, NewAudit).raised

\* the emr objects a client submits
EmrChoices ==
  << EmptyDict,
     MakeContext(HistoryChoices[3], Missing, Missing),
     MakeContext(Missing, ExaminationChoices[2], List(<<LabChoices[1]>>)) >>

\* the values of case_id and patient_id; Missing is a key that is not sent
IdChoices == << Missing, Str(<<"c", "a", "s", "e", "-", "1">>), Num(7) >>

\* a JSON object body
MakeBody(c, p, e) ==
  LET all  == << << <<"c", "a", "s", "e", "_", "i", "d">>, c >>, << <<"p", "a", "t", "i", "e", "n", "t", "_", "i", "d">>, p >>, << <<"e", "m", "r">>, e >> >>
      kept == SelectSeq(all, LAMBDA kv : kv[2] # Missing)
  IN  Dict([j \in 1..Len(kept) |-> kept[j][1]], [j \in 1..Len(kept) |-> kept[j][2]])

\* the requests: any method; a body that does not parse, one that parses to a
\* list, and objects with and without the three keys
Requests ==
  {[method |-> m, parsable |-> FALSE, json |-> Null] : m \in {"POST", "GET"}}
    \cup {[method |-> m, parsable |-> TRUE, json |-> j] :
            m \in {"POST", "GET"},
            j \in {EmptyList}
                    \cup {MakeBody(IdChoices[c], IdChoices[p], e) :
                            c \in 1..Len(IdChoices), p \in 1..Len(IdChoices),
                            e \in Range(EmrChoices) \cup {Missing}}}

InitAnalyze ==
  /\ pc = "request"
  /\ request \in Requests
  /\ response = NoResponse
  /\ ManyIdle
  /\ section_name = Null
  /\ label = <<>>
  /\ data = Null
  /\ findings = {}
  /\ on_entry = [findings |-> {}, audit |-> NewAudit]
  /\ audit = NewAudit
  /\ adds = <<>>
  /\ payload = NoPayload
  /\ PipelineIdle

\* analyze(request) behind require_POST: 405 for another method, 400 for a body
\* that json.loads rejects, 500 when the view raises (body.get on a list),
\* else the mocked ai_output with the ids of the body
Analyze ==
  /\ pc = "request"
  /\ response' =
       IF request.method # "POST"
         THEN [NoResponse EXCEPT !.status_code = 405]
       ELSE IF ~request.parsable
         THEN [NoResponse EXCEPT !.status_code = 400, !.error = "Invalid JSON"]
       ELSE IF ~IsDict(request.json) \/ MockCallRaises
         THEN [NoResponse EXCEPT !.status_code = 500]
       ELSE [status_code   |-> 200,
             error         |-> "none",
             status        |-> "success",
             case_id       |-> Get(request.json, <<"c", "a", "s", "e", "_", "i", "d">>, Null),
             patient_id    |-> Get(request.json, <<"p", "a", "t", "i", "e", "n", "t", "_", "i", "d">>, Null),
             ai_output     |-> MOCK_AI_OUTPUT,
             has_ai_output |-> TRUE,
             has_meta      |-> FALSE]
  /\ pc' = "responded"
  /\ UNCHANGED << context, callVars, report, mode, prev, section_name, label, data, findings,
                  on_entry, request, templates, calls, heap, tables >>

NextAnalyze == Analyze

SpecAnalyze == InitAnalyze /\ [][NextAnalyze]_vars

\* ------------------------------------------------------------------------
\* _process_templates on its own
\* ------------------------------------------------------------------------

\* the most templates a templates list holds
MaxTemplates == 2

\* what a template may carry under "sections": a section with a finding and an
\* ignored value, or no section
SECTIONS_FULL ==
  List(<< Dict(<< <<"s", "e", "c", "t", "i", "o", "n", "_", "n", "a", "m", "e">>, <<"f", "o", "r", "m", "s">> >>,
               << Str(<<"S", "e", "c">>),
                  List(<< Dict(<< <<"d", "a", "t", "a">> >>,
                               << Dict(<< <<"s">>, <<"s", "x">> >>, << Str(<<"1">>), Str(<<>>) >>) >>) >>) >>) >>)

\* under "forms": a form with a finding and an ignored value
FORMS_FULL ==
  List(<< Dict(<< <<"d", "a", "t", "a">> >>, << Dict(<< <<"f">>, <<"f", "x">> >>, << Str(<<"2">>), Str(<<>>) >>) >>) >>)

\* under "data": a group with a finding and an ignored value
DATA_FULL == Dict(<< <<"d">>, <<"d", "x">> >>, << Str(<<"3">>), Str(<<>>) >>)

\* under "data": a value that is not a dict
DATA_BAD == Str(<<"x">>)

\* the template dict of the keys that are not missing
MakeTemplate(s, f, d) ==
  LET all  == << <<<<"s", "e", "c", "t", "i", "o", "n", "s">>, s>>, <<<<"f", "o", "r", "m", "s">>, f>>, <<<<"d", "a", "t", "a">>, d>> >>
      kept == SelectSeq(all, LAMBDA kv : kv[2] # Missing)
  IN  Dict([j \in 1..Len(kept) |-> kept[j][1]], [j \in 1..Len(kept) |-> kept[j][2]])

\* Templates with every subset of the three keys (the empty dict among them),
\* a template whose sections is None beside forms and data, and entries that
\* are not a dict
TemplateChoices ==
  {MakeTemplate(s, f, d) : s \in {Missing, SECTIONS_FULL, EmptyList},
                           f \in {Missing, FORMS_FULL},
                           d \in {Missing, DATA_FULL, DATA_BAD}}
    \cup {MakeTemplate(Null, FORMS_FULL, DATA_FULL), Null, Str(<<"x">>)}

\* the lists of at most n templates
RECURSIVE TemplateLists(_)
TemplateLists(n) ==
  IF n = 0 THEN {<<>>}
  ELSE TemplateLists(n - 1)
         \cup {Append(ts, t) : ts \in {l \in TemplateLists(n - 1) : Len(l) = n - 1},
                               t \in TemplateChoices}

\* a call of extract_history_findings' kind: the default label "History", no
\* resolver; the findings set and the audit are empty or hold an earlier entry
InitTemplates ==
  /\ pc = "templates"
  /\ templates \in {List(ts) : ts \in TemplateLists(MaxTemplates)} \cup {Null}
  /\ label = <<"H", "i", "s", "t", "o", "r", "y">>
  /\ \/ findings = {} /\ audit = NewAudit
     \/ findings = {<<"H", "i", "s", "t", "o", "r", "y", ":", " ", "a">>} /\ audit = EarlierAudit
  /\ on_entry = [findings |-> {}, audit |-> NewAudit]
  /\ section_name = Null
  /\ data = Null
  /\ request = NoRequest
  /\ response = NoResponse
  /\ calls = <<>>
  /\ heap = <<>>
  /\ tables = MODULE_TABLES
  /\ adds = <<>>
  /\ payload = NoPayload
  /\ PipelineIdle

\* _process_templates(findings, templates, "History", audit=audit); what the
\* call added before an exception stays in the caller's set and audit
ProcessTemplatesCall ==
  /\ pc = "templates"
  /\ LET st == _process_templates([NewRun(audit) EXCEPT !.findings = findings],
                                  templates, label, FALSE)
     IN  /\ findings' = st.findings
         /\ audit' = st.audit
         /\ adds' = st.adds
         /\ pc' = IF st.raised THEN "raised" ELSE "processed"
  /\ on_entry' = [findings |-> findings, audit |-> audit]
  /\ UNCHANGED << context, safety, history_findings, exam_findings, lab_findings, parsed_labs,
                  risk_flags, payload, report, mode, prev, section_name, label, data,
                  request, response, templates, calls, heap, tables >>

NextTemplates == ProcessTemplatesCall

SpecTemplates == InitTemplates /\ [][NextTemplates]_vars

\* ------------------------------------------------------------------------
\* Several invocations side by side
\* ------------------------------------------------------------------------

\* the invocations in progress at once
MaxCalls == 2

\* Requests whose findings, audit entries, risk flags and forbidden terms differ
\* from one another, and one (history None) on which the call raises
ManyContexts ==
  << MakeContext(HistoryChoices[3], ExaminationChoices[2], List(<<LabChoices[1]>>)),
     MakeContext(HistoryChoices[6], ExaminationChoices[5], List(<<LabChoices[4], LabChoices[5]>>)),
     MakeContext(Null, ExaminationChoices[4], Missing) >>

\* the sorted list of a set
SortedOf(S) == sorted(CHOOSE order \in Perms(S) : TRUE)

\* a payload without the instant it was generated at
Timeless(p) == [p EXCEPT !.meta.generated_at = 0]

\* F of the value of x, with x evaluated once
Then(x, F(_)) == CHOOSE y \in {F(v) : v \in {x}} : TRUE

\* What build_llm_payload and generate_report give for ctx when nothing else
\* runs: the statements one after the other on an audit of their own
AloneOf(ctx) ==
  Then(HistoryRun(Get(ctx, HISTORY_KEY, EmptyDict), NewAudit), LAMBDA h :
  Then(ExaminationRun(Get(ctx, EXAMINATION_KEY, EmptyDict), h.audit), LAMBDA e :
  Then(InvestigationRun(Get(ctx, INVESTIGATION_KEY, EmptyList), e.audit), LAMBDA l :
  Then(parse_investigations(Get(ctx, INVESTIGATION_KEY, EmptyList), l.audit), LAMBDA p :
  Then(SortedOf(h.findings), LAMBDA hf :
  Then(SortedOf(e.findings), LAMBDA ef :
  Then(RiskRun(hf, ef, p.parsed), LAMBDA r :
  Then(SortedOf(r.risks), LAMBDA rf :
  Then([clinical_context |-> prioritize_context(hf, ef, FindingsList(l), rf),
        meta |-> [generated_at |-> 0, version |-> "1.0.0", risk_flags |-> rf,
                  has_audit |-> TRUE, audit |-> p.audit,
                  safety |-> [forbidden_terms |-> SortedOf(Scan(ctx))],
                  parsed_labs |-> p.parsed]], LAMBDA pl :
    IF h.raised \/ e.raised \/ r.raised
      THEN [raised |-> TRUE, payload |-> NoPayload, report |-> NoReport]
      ELSE [raised |-> FALSE, payload |-> pl, report |-> generate_report(pl)])))))))))

\* the locals of an invocation of build_llm_payload on ctx before its first
\* statement; audit is a reference into the heap, 0 before the dict exists
FreshCall(ctx) ==
  [pc |-> "start", context |-> ctx, audit |-> 0, safety |-> [forbidden_terms |-> <<>>],
   history_findings |-> <<>>, exam_findings |-> <<>>, lab_findings |-> <<>>,
   parsed_labs |-> <<>>, risk_flags |-> <<>>, payload |-> NoPayload, report |-> NoReport]

\* the invocations run on different requests; they are told apart by their
\* requests alone, so the first has the earliest request of ManyContexts
InitMany ==
  /\ pc = "many"
  /\ \E pick \in [1..MaxCalls -> 1..Len(ManyContexts)] :
       /\ \A i, j \in 1..MaxCalls : i < j => pick[i] < pick[j]
       /\ calls = [i \in 1..MaxCalls |-> FreshCall(ManyContexts[pick[i]])]
  /\ heap = <<>>
  /\ tables = MODULE_TABLES
  /\ templates = Null
  /\ section_name = Null
  /\ label = <<>>
  /\ data = Null
  /\ findings = {}
  /\ on_entry = [findings |-> {}, audit |-> NewAudit]
  /\ request = NoRequest
  /\ response = NoResponse
  /\ audit = NewAudit
  /\ adds = <<>>
  /\ payload = NoPayload
  /\ PipelineIdle

\* what no invocation touches: the variables of the other specifications, and
\* the module-level tables, which no statement of the two modules assigns or
\* mutates
manyFrame ==
  << pc, context, callVars, report, mode, prev, section_name, label, data, findings,
     on_entry, request, response, templates, tables >>

\* one audit dict for every call (a module-level dict, or a mutable default)
SharedRef(h) == 1

\* the reference of the dict a dict display creates: an object of its own
NewRef(h) == Len(h) + 1

\* the heap with the audit dict r set to a
Store(h, r, a) == [q \in 1..(IF r > Len(h) THEN r ELSE Len(h)) |-> IF q = r THEN a ELSE h[q]]

\* audit = {"discarded": [], "warnings": []}; safety = check_forbidden_terms(context)
CheckForbiddenTermsOf(i) ==
  /\ calls[i].pc = "start"
  /\ \E order \in Perms(Scan(calls[i].context)) :
       calls' = [calls EXCEPT ![i].audit = NewRef(heap),
                              ![i].safety = [forbidden_terms |-> sorted(order)],
                              ![i].pc = "history"]
  /\ heap' = Store(heap, NewRef(heap), NewAudit)
  /\ UNCHANGED manyFrame

\* history_findings = extract_history_findings(history, audit=audit)
ExtractHistoryFindingsOf(i) ==
  /\ calls[i].pc = "history"
  /\ LET st == HistoryRun(Get(calls[i].context, HISTORY_KEY, EmptyDict), heap[calls[i].audit])
     IN  IF st.raised
           THEN calls' = [calls EXCEPT ![i].pc = "raised"] /\ UNCHANGED heap
           ELSE /\ \E order \in Perms(st.findings) :
                     calls' = [calls EXCEPT ![i].history_findings = sorted(order),
                                            ![i].pc = "examination"]
                /\ heap' = Store(heap, calls[i].audit, st.audit)
  /\ UNCHANGED manyFrame

\* exam_findings = extract_examination_findings(examination, audit=audit)
ExtractExaminationFindingsOf(i) ==
  /\ calls[i].pc = "examination"
  /\ LET st == ExaminationRun(Get(calls[i].context, EXAMINATION_KEY, EmptyDict), heap[calls[i].audit])
     IN  IF st.raised
           THEN calls' = [calls EXCEPT ![i].pc = "raised"] /\ UNCHANGED heap
           ELSE /\ \E order \in Perms(st.findings) :
                     calls' = [calls EXCEPT ![i].exam_findings = sorted(order),
                                            ![i].pc = "investigation"]
                /\ heap' = Store(heap, calls[i].audit, st.audit)
  /\ UNCHANGED manyFrame

\* lab_findings = extract_investigation_findings(investigation, audit=audit)
ExtractInvestigationFindingsOf(i) ==
  /\ calls[i].pc = "investigation"
  /\ LET st == InvestigationRun(Get(calls[i].context, INVESTIGATION_KEY, EmptyList), heap[calls[i].audit])
     IN  /\ calls' = [calls EXCEPT ![i].lab_findings = FindingsList(st), ![i].pc = "parse"]
         /\ heap' = Store(heap, calls[i].audit, st.audit)
  /\ UNCHANGED manyFrame

\* parsed_labs = parse_investigations(investigation, audit=audit)
ParseInvestigationsOf(i) ==
  /\ calls[i].pc = "parse"
  /\ LET st == parse_investigations(Get(calls[i].context, INVESTIGATION_KEY, EmptyList), heap[calls[i].audit])
     IN  /\ calls' = [calls EXCEPT ![i].parsed_labs = st.parsed, ![i].pc = "risks"]
         /\ heap' = Store(heap, calls[i].audit, st.audit)
  /\ UNCHANGED manyFrame

\* risk_flags = derive_clinical_risks(history_findings, exam_findings, parsed_labs)
DeriveClinicalRisksOf(i) ==
  /\ calls[i].pc = "risks"
  /\ LET st == RiskRun(calls[i].history_findings, calls[i].exam_findings, calls[i].parsed_labs)
     IN  IF st.raised
           THEN calls' = [calls EXCEPT ![i].pc = "raised"]
           ELSE \E order \in Perms(st.risks) :
                  calls' = [calls EXCEPT ![i].risk_flags = sorted(order), ![i].pc = "prioritize"]
  /\ UNCHANGED << heap, manyFrame >>

\* prioritized_context = prioritize_context(...); return {...}: meta.audit is
\* the audit dict itself, not a copy
ReturnOf(i) ==
  /\ calls[i].pc = "prioritize"
  /\ \E now \in 1..MaxTime :
       calls' =
         [calls EXCEPT
            ![i].payload =
              [clinical_context |->
                 prioritize_context(calls[i].history_findings, calls[i].exam_findings,
                                    calls[i].lab_findings, calls[i].risk_flags),
               meta |-> [generated_at |-> now, version |-> "1.0.0",
                         risk_flags |-> calls[i].risk_flags,
                         has_audit |-> TRUE, audit |-> calls[i].audit,
                         safety |-> calls[i].safety,
                         parsed_labs |-> calls[i].parsed_labs]],
            ![i].pc = "returned"]
  /\ UNCHANGED << heap, manyFrame >>

\* report = generate_report(payload): result["audit"] is the same dict again
GenerateReportOf(i) ==
  /\ calls[i].pc = "returned"
  /\ calls' = [calls EXCEPT ![i].report = generate_report(calls[i].payload),
                            ![i].pc = "reported"]
  /\ UNCHANGED << heap, manyFrame >>

\* the threads are scheduled in any order, one statement at a time
NextMany ==
  \E i \in 1..MaxCalls :
    \/ CheckForbiddenTermsOf(i)
    \/ ExtractHistoryFindingsOf(i)
    \/ ExtractExaminationFindingsOf(i)
    \/ ExtractInvestigationFindingsOf(i)
    \/ ParseInvestigationsOf(i)
    \/ DeriveClinicalRisksOf(i)
    \/ ReturnOf(i)
    \/ GenerateReportOf(i)

SpecMany == InitMany /\ [][NextMany]_vars

\* ------------------------------------------------------------------------
\* Claims
\* ------------------------------------------------------------------------

\* build_llm_payload has returned
Returned == pc \in {"returned", "reported"}

\* the finding strings of the three buckets of the payload
BucketFindings ==
  Range(payload.clinical_context.high_priority)
    \cup Range(payload.clinical_context.medium_priority)
    \cup Range(payload.clinical_context.low_priority)

\* C1: build_llm_payload never raises, whatever the shape of history, examination
\* and investigation: no call ends in an exception.
C1_NeverRaises == pc # "raised"

\* a parsed lab whose name contains "hba1c"
IsHbA1cLab(lab) == IsStr(lab.name) /\ Contains(Lower(lab.name.s), <<"h", "b", "a", "1", "c">>)

\* C2: when every HbA1c lab of the input has a numeric_value and that value is
\* below 8.0, the risk flags do not hold "poor glycemic control" (the raw-text
\* fallback is for labs without a numeric_value only).
C2_NoFlagBelowEight ==
  (/\ pc \in {"prioritize", "returned", "reported"}
   /\ \A i \in 1..Len(parsed_labs) :
        IsHbA1cLab(parsed_labs[i]) =>
          /\ parsed_labs[i].numeric_value.some
          /\ parsed_labs[i].numeric_value.m < 8 * Pow10(parsed_labs[i].numeric_value.e))
    => POOR_GLYCEMIC \notin Range(risk_flags)

\* C5: no finding of any bucket and no entry of audit.discarded or audit.warnings
\* contains the literal "()".
C5_NoEmptyParentheses ==
  Returned =>
    \A s \in BucketFindings \cup Range(payload.meta.audit.discarded)
               \cup Range(payload.meta.audit.warnings) :
      ~Contains(s, <<"(", ")">>)

\* C9: every parsed lab in which no number was found has numeric_value null and
\* a warnings audit entry that names it.
C9_ParseFailureWarned ==
  pc \in {"risks", "prioritize", "returned", "reported"} =>
    \A i \in 1..Len(parsed_labs) :
      ~parsed_labs[i].numeric_value.some =>
        \E j \in 1..Len(audit.warnings) :
          Contains(audit.warnings[j], ToStr(parsed_labs[i].name))

\* C4 as stated: no finding of any bucket contains the substring "normal",
\* whatever the case of its letters.
C4_NoNormalSubstring ==
  Returned => \A f \in BucketFindings : ~Contains(Lower(f), <<"n", "o", "r", "m", "a", "l">>)

\* a value that equals "normal" once trimmed and lower-cased
TextuallyNormal(v) == IsStr(v) /\ Lower(Strip(v.s)) = <<"n", "o", "r", "m", "a", "l">>

\* C4 as amended: no finding is emitted for a scalar value, a list item or a lab
\* value that equals "normal" once trimmed and lower-cased, and every finding of
\* the buckets that is not a risk flag was emitted for a value that is not.
C4_NoNormalValueEmitted ==
  Returned =>
    /\ \A i \in 1..Len(adds) : ~TextuallyNormal(adds[i].v)
    /\ \A f \in BucketFindings \ Range(payload.meta.risk_flags) :
         \E i \in 1..Len(adds) : adds[i].f = f

\* a returned payload for a request with a value that is textually normal, which
\* was discarded, and a field name that holds the word, which was emitted
C4_Witness ==
  /\ pc = "returned"
  /\ \E i \in 1..Len(audit.discarded) :
       Contains(audit.discarded[i], <<"i", "g", "n", "o", "r", "e", "d", " ", "l", "i", "s", "t", " ", "i", "t", "e", "m", " ", "'", "n", "o", "r", "m", "a", "l", "'">>)
  /\ \E f \in BucketFindings : Contains(Lower(f), <<"n", "o", "r", "m", "a", "l">>)

\* C7: the risk flags of the request with one more HbA1c lab of a numeric value
\* >= 8.0 hold "poor glycemic control" and every risk flag of the first request.
C7_RiskMonotone ==
  (mode = "appended" /\ Returned) =>
    /\ POOR_GLYCEMIC \in Range(payload.meta.risk_flags)
    /\ Range(prev.meta.risk_flags) \subseteq Range(payload.meta.risk_flags)

\* the follow-up request returned, and the first one had risk flags, none of
\* them "poor glycemic control"
C7_Witness ==
  /\ mode = "appended"
  /\ pc = "returned"
  /\ prev.meta.risk_flags # <<>>
  /\ POOR_GLYCEMIC \notin Range(prev.meta.risk_flags)

\* C8: a second call on the same request returns a payload equal to the first
\* in every field but meta.generated_at.
C8_Deterministic ==
  (mode = "again" /\ Returned) =>
    /\ payload.clinical_context = prev.clinical_context
    /\ payload.meta.risk_flags = prev.meta.risk_flags
    /\ payload.meta.audit = prev.meta.audit
    /\ payload.meta.safety = prev.meta.safety
    /\ payload.meta.parsed_labs = prev.meta.parsed_labs
    /\ payload.meta.version = prev.meta.version

\* the second call returned at another instant, with several findings in a set
\* and several forbidden terms
C8_Witness ==
  /\ mode = "again"
  /\ pc = "returned"
  /\ Len(payload.clinical_context.low_priority) >= 2
  /\ Len(payload.meta.safety.forbidden_terms) >= 2
  /\ payload.meta.generated_at # prev.meta.generated_at


\* the number of occurrences of the word w in s, letter case ignored
WordCount(s, w) ==
  Cardinality({i \in 1..Len(s) :
     /\ MatchAtI(s, i, w)
     /\ WordBoundary(s, i)
     /\ WordBoundary(s, i + Len(w))})

\* C3 Laterality non-duplication: the label that normalize_section_label
\* returns never holds the word "right" twice nor the word "left" twice,
\* letter case ignored, whatever separators join the words of the argument.
C3_LateralityOnce ==
  pc = "labelled" =>
    /\ WordCount(label, <<"r", "i", "g", "h", "t">>) <= 1
    /\ WordCount(label, <<"l", "e", "f", "t">>) <= 1

\* C6 Deduplication in the report: no two entries of key_insights, as they
\* are returned (truncated, risk sentences included), have the same
\* normalized dedup key.
C6_NoDuplicateKeys ==
  pc = "reported" =>
    LET ins == report.ai_output.key_insights
    IN  \A i, j \in 1..Len(ins) :
          i # j => _normalize_key_for_dedup(ins[i]) # _normalize_key_for_dedup(ins[j])

\* the entries that _extract_data appended to audit.discarded
Appended == SubSeq(audit.discarded, Len(on_entry.audit.discarded) + 1, Len(audit.discarded))

IsComments(key) == Lower(key) = <<"c", "o", "m", "m", "e", "n", "t", "s">>

\* the units of field i of the data group: each item of a list, or the scalar
ItemUnits(i) == IF IsList(data.items[i]) THEN Len(data.items[i].items) ELSE 1

\* the units of field i when a comments field is one unit whatever its value
FieldUnits(i) == IF IsComments(data.keys[i]) THEN 1 ELSE ItemUnits(i)

RECURSIVE SumUpTo(_, _)
SumUpTo(Units(_), n) == IF n = 0 THEN 0 ELSE Units(n) + SumUpTo(Units, n - 1)

\* the appended entries that name field i
DiscardsOf(i) ==
  Cardinality({e \in 1..Len(Appended) :
     StartsWith(Appended[e], label \o <<".">> \o data.keys[i] \o <<":">>)})

\* what a call leaves alone: the entries and findings it was given
KeepsEarlier ==
  /\ SubSeq(audit.discarded, 1, Len(on_entry.audit.discarded)) = on_entry.audit.discarded
  /\ audit.warnings = on_entry.audit.warnings
  /\ findings = on_entry.findings \cup {adds[a].f : a \in 1..Len(adds)}

\* no findings.add of the call has the value of a comments field alone
NoCommentsFinding ==
  \A a \in 1..Len(adds) :
    \E i \in 1..Len(data.keys) :
      /\ ~IsComments(data.keys[i])
      /\ \/ adds[a].v = data.items[i]
         \/ IsList(data.items[i]) /\ adds[a].v \in Range(data.items[i].items)

\* C10 as stated: every scalar field and every item of every list-valued
\* field, those of a comments field too, is one findings.add or one entry
\* appended to audit.discarded, and no comments value becomes a finding.
C10_EachItemOnce ==
  pc = "extracted" /\ IsDict(data) =>
    /\ Len(adds) + Len(Appended) = SumUpTo(ItemUnits, Len(data.keys))
    /\ NoCommentsFinding

\* C10 Audit completeness of _extract_data, amended: for a dict, every
\* scalar field and every list item of a field that is not named comments is
\* one findings.add or one entry appended to audit.discarded, never both
\* and never neither; a field named comments in any letter case appends
\* one entry for the whole field, whatever its value and however many
\* items it has, and its value is never emitted as a finding.
C10_EachUnitOnce ==
  pc = "extracted" /\ IsDict(data) =>
    /\ Len(adds) + Len(Appended) = SumUpTo(FieldUnits, Len(data.keys))
    /\ Len(Appended) = SumUpTo(DiscardsOf, Len(data.keys))
    /\ \A i \in 1..Len(data.keys) :
         /\ DiscardsOf(i) <= FieldUnits(i)
         /\ IsComments(data.keys[i]) =>
              /\ DiscardsOf(i) = 1
              /\ \E e \in 1..Len(Appended) :
                   Appended[e] = label \o <<".">> \o data.keys[i] \o <<":", " ", "i", "g", "n", "o", "r", "e", "d", " ", "(", "c", "o", "m", "m", "e", "n", "t", "s", ")">>
    /\ NoCommentsFinding
    /\ KeepsEarlier

\* a call on a dict with a comments field of two items and a list field that
\* gives one finding and one discarded item
C10_Witness ==
  /\ pc = "extracted"
  /\ IsDict(data)
  /\ \E i \in 1..Len(data.keys) :
       /\ IsComments(data.keys[i])
       /\ IsList(data.items[i])
       /\ Len(data.items[i].items) = 2
  /\ Len(adds) = 1
  /\ Len(Appended) = 2

\* the number of entries of the list xs that satisfy P
CountOf(xs, P(_)) == Cardinality({i \in 1..Len(xs) : P(xs[i])})

\* the labs of the request
Labs == IF IsList(investigation) THEN investigation.items ELSE <<>>

\* a lab entry with a name and a value that is textually normal
IsNormalLab(lab) ==
  /\ IsDict(lab)
  /\ Truthy(Get(lab, <<"n", "a", "m", "e">>, Null))
  /\ TextuallyNormal(Get(lab, <<"v", "a", "l", "u", "e">>, Null))

\* the entry the textual pass appends for a lab it skips as normal
SkippedNormal(lab) ==
  <<"i", "n", "v", "e", "s", "t", "i", "g", "a", "t", "i", "o", "n", ":", " ", "s", "k", "i", "p", "p", "e", "d", " ">> \o ToStr(Get(lab, <<"n", "a", "m", "e">>, Null)) \o <<"=", "=", "'", "n", "o", "r", "m", "a", "l", "'">>

\* C11 Textual/numeric asymmetry: a lab entry with a name and a value that
\* equals "normal" once trimmed and lower-cased gives no medium_priority
\* finding and one audit.discarded entry of the textual pass, and is in
\* meta.parsed_labs with numeric_value None and its raw_value.
C11_NormalLabAsymmetry ==
  Returned =>
    \A i \in 1..Len(Labs) :
      IsNormalLab(Labs[i]) =>
        LET lab      == Labs[i]
            SameName(l) == IsNormalLab(l) /\ SkippedNormal(l) = SkippedNormal(lab)
            IsSkip(e)   == e = SkippedNormal(lab)
            IsTextual(e) == StartsWith(e, <<"i", "n", "v", "e", "s", "t", "i", "g", "a", "t", "i", "o", "n", ":", " ">>)
        IN  /\ LabEntry(lab) \notin Range(payload.clinical_context.medium_priority)
            /\ CountOf(payload.meta.audit.discarded, IsSkip) = CountOf(Labs, SameName)
            /\ Len(payload.clinical_context.medium_priority)
                 + CountOf(payload.meta.audit.discarded, IsTextual) = Len(Labs)
            /\ \E k \in 1..Len(payload.meta.parsed_labs) :
                 /\ payload.meta.parsed_labs[k].name = Get(lab, <<"n", "a", "m", "e">>, Null)
                 /\ ~payload.meta.parsed_labs[k].numeric_value.some
                 /\ payload.meta.parsed_labs[k].raw_value = Strip(Get(lab, <<"v", "a", "l", "u", "e">>, Null).s)

\* a returned payload for a request with a normal lab and a lab that gives a finding
C11_Witness ==
  /\ pc = "returned"
  /\ \E i \in 1..Len(Labs) : IsNormalLab(Labs[i])
  /\ payload.clinical_context.medium_priority # <<>>

\* every str of a value, at any depth: str values, list items, dict values and
\* dict keys
RECURSIVE AllStrings(_)
AllStrings(v) ==
  IF IsStr(v) THEN {v.s}
  ELSE IF IsList(v) THEN UNION {AllStrings(v.items[i]) : i \in 1..Len(v.items)}
  ELSE IF IsDict(v)
    THEN Range(v.keys) \cup UNION {AllStrings(v.items[i]) : i \in 1..Len(v.items)}
  ELSE {}

\* the forbidden terms that occur in some str of the request, letter case ignored
TermsIn(v) ==
  {t \in Range(FORBIDDEN_TERMS) : \E s \in AllStrings(v) : Contains(Lower(s), t)}

StrictlyAscending(xs) == \A i \in 1..(Len(xs) - 1) : StrLess(xs[i], xs[i + 1])

\* C12 Safety scan coverage: once check_forbidden_terms has run,
\* forbidden_terms holds every forbidden term that occurs, letter case
\* ignored, in a str at any depth of the request, and only those, sorted
\* and without duplicates; and the returned payload carries them next to
\* the findings, risk flags, audit and parsed labs of the same request.
C12_ScanCoverage ==
  /\ pc # "start" =>
       /\ Range(safety.forbidden_terms) = TermsIn(context)
       /\ StrictlyAscending(safety.forbidden_terms)
  /\ Returned =>
       /\ payload.meta.safety = safety
       /\ payload.meta.audit = audit
       /\ payload.meta.risk_flags = risk_flags
       /\ payload.meta.parsed_labs = parsed_labs

\* C13 Safety warnings of the report: ai_output has safety_warnings exactly
\* when meta.safety.forbidden_terms of the payload is not empty, and then it
\* holds one line "Forbidden term detected: <term>" per term, in the order
\* of forbidden_terms; the report has the audit key, with meta.audit as its
\* value, whenever the payload has meta.audit.
C13_SafetyWarnings ==
  pc = "reported" =>
    LET terms == payload.meta.safety.forbidden_terms
        out   == report.ai_output
    IN  /\ out.has_safety_warnings <=> terms # <<>>
        /\ out.has_safety_warnings =>
             /\ Len(out.safety_warnings) = Len(terms)
             /\ \A i \in 1..Len(terms) :
                  out.safety_warnings[i] = <<"F", "o", "r", "b", "i", "d", "d", "e", "n", " ", "t", "e", "r", "m", " ", "d", "e", "t", "e", "c", "t", "e", "d", ":", " ">> \o terms[i]
        /\ payload.meta.has_audit =>
             /\ report.has_audit
             /\ report.audit = payload.meta.audit

\* a report of a payload with two forbidden terms and an audit
C13_Witness ==
  /\ pc = "reported"
  /\ Len(payload.meta.safety.forbidden_terms) = 2
  /\ report.ai_output.has_safety_warnings
  /\ payload.meta.has_audit
  /\ report.has_audit

\* the findings of the three buckets of the payload, in the order of the report
OrderedFindings ==
  payload.clinical_context.high_priority
    \o payload.clinical_context.medium_priority
    \o payload.clinical_context.low_priority

\* C14 Confidence, risks and empty summary: confidence_level is "medium"
\* exactly when risk_flags of the payload is not empty and "low" otherwise,
\* clinical_risks is risk_flags, and the summary of a payload without risk
\* flags and without findings is the empty str.
C14_ConfidenceAndRisks ==
  pc = "reported" =>
    LET risks == payload.meta.risk_flags
        out   == report.ai_output
    IN  /\ out.confidence_level = "medium" <=> risks # <<>>
        /\ out.confidence_level = "low" <=> risks = <<>>
        /\ out.clinical_risks = risks
        /\ (risks = <<>> /\ OrderedFindings = <<>>) => out.summary = <<>>

\* a report of a payload with three risk flags and no finding
C14_Witness ==
  /\ pc = "reported"
  /\ Len(payload.meta.risk_flags) = 3
  /\ OrderedFindings = <<>>
  /\ report.ai_output.confidence_level = "medium"
  /\ report.ai_output.summary # <<>>

\* the index of the first occurrence of x in xs
FirstIndex(xs, x) == CHOOSE i \in 1..Len(xs) : xs[i] = x /\ \A j \in 1..(i - 1) : xs[j] # x

\* ys is xs with the later repeats removed
IsFirstOccurrences(ys, xs) ==
  /\ Range(ys) = Range(xs)
  /\ \A a, b \in 1..Len(ys) : a < b => FirstIndex(xs, ys[a]) < FirstIndex(xs, ys[b])

\* C15 Suggested next steps: the list is not empty and has no duplicate; it
\* is the concatenation, in the order of the risk flags, of the action list
\* of each flag ("Clinical review" for a flag without one) with the later
\* repeats removed, and ["Clinical review"] when there is no risk flag.
C15_SuggestedNextSteps ==
  pc = "reported" =>
    LET risks == payload.meta.risk_flags
        steps == report.ai_output.suggested_next_steps
    IN  /\ steps # <<>>
        /\ \A a, b \in 1..Len(steps) : a # b => steps[a] # steps[b]
        /\ risks # <<>> => IsFirstOccurrences(steps, Suggested(risks, 1))
        /\ risks = <<>> => steps = << <<"C", "l", "i", "n", "i", "c", "a", "l", " ", "r", "e", "v", "i", "e", "w">> >>

\* a report for the three known flags, two of which share an action
C15_Witness ==
  /\ pc = "reported"
  /\ payload.meta.risk_flags = <<LONG_DIABETES, POOR_GLYCEMIC, SINGLE_EYE>>
  /\ report.ai_output.suggested_next_steps =
       << <<"D", "e", "t", "a", "i", "l", "e", "d", " ", "r", "e", "t", "i", "n", "a", "l", " ", "e", "x", "a", "m", "i", "n", "a", "t", "i", "o", "n">>,
          <<"O", "p", "t", "i", "m", "i", "z", "e", " ", "b", "l", "o", "o", "d", " ", "g", "l", "u", "c", "o", "s", "e", " ", "c", "o", "n", "t", "r", "o", "l">>,
          <<"C", "o", "n", "s", "i", "d", "e", "r", " ", "H", "b", "A", "1", "c", " ", "r", "e", "c", "h", "e", "c", "k", " ", "&", " ", "d", "i", "a", "b", "e", "t", "e", "s", " ", "c", "l", "i", "n", "i", "c", " ", "r", "e", "f", "e", "r", "r", "a", "l">>,
          <<"U", "r", "g", "e", "n", "t", " ", "o", "p", "h", "t", "h", "a", "l", "m", "o", "l", "o", "g", "y", " ", "r", "e", "v", "i", "e", "w">>,
          <<"W", "a", "r", "n", " ", "a", "b", "o", "u", "t", " ", "v", "i", "s", "i", "o", "n", " ", "p", "r", "e", "s", "e", "r", "v", "a", "t", "i", "o", "n">> >>

\* C16 Prioritization is repackaging: in every returned payload high_priority
\* is the sorted examination findings followed by the sorted risk flags,
\* medium_priority is the textual lab findings in input order and
\* low_priority is the sorted history findings; the buckets hold what the
\* extractors found for the request, nothing dropped, added or moved.
C16_PureRepackaging ==
  Returned =>
    LET ctx == payload.clinical_context
    IN  /\ ctx.high_priority = exam_findings \o risk_flags
        /\ ctx.medium_priority = lab_findings
        /\ ctx.low_priority = history_findings
        /\ payload.meta.risk_flags = risk_flags
        /\ StrictlyAscending(exam_findings)
        /\ StrictlyAscending(risk_flags)
        /\ StrictlyAscending(history_findings)
        /\ Range(history_findings) = HistoryRun(history, NewAudit).findings
        /\ Range(exam_findings) = ExaminationRun(examination, NewAudit).findings
        /\ lab_findings = FindingsList(InvestigationRun(investigation, NewAudit))
        /\ Len(adds) >= Len(lab_findings)
        /\ \A i \in 1..Len(lab_findings) :
             adds[Len(adds) - Len(lab_findings) + i].f = lab_findings[i]

\* a returned payload with examination findings, two risk flags, two lab
\* findings and two history findings
C16_Witness ==
  /\ pc = "returned"
  /\ exam_findings # <<>>
  /\ Len(risk_flags) >= 2
  /\ Len(payload.clinical_context.high_priority) = Len(exam_findings) + Len(risk_flags)
  /\ Len(payload.clinical_context.medium_priority) = 2
  /\ Len(payload.clinical_context.low_priority) >= 2

\* C17 The analyze endpoint: a POST whose body parses to an object with
\* case_id, patient_id and an emr object is answered with status 200, the
\* two ids, an ai_output computed from the submitted emr (safety_warnings
\* that mention a forbidden phrase of the emr, and for an empty emr the
\* empty summary and confidence "low") and a meta with audit and safety; a
\* POST whose body does not parse is answered with status 400.
C17_AnalyzeEnvelope ==
  (pc = "responded" /\ request.method = "POST") =>
    /\ ~request.parsable => response.status_code = 400
    /\ ( /\ request.parsable
         /\ IsDict(request.json)
         /\ HasKey(request.json, <<"c", "a", "s", "e", "_", "i", "d">>)
         /\ HasKey(request.json, <<"p", "a", "t", "i", "e", "n", "t", "_", "i", "d">>)
         /\ IsDict(Get(request.json, <<"e", "m", "r">>, Null)) ) =>
         LET emr == Get(request.json, <<"e", "m", "r">>, Null)
         IN  /\ response.status_code = 200
             /\ response.status = "success"
             /\ response.case_id = Get(request.json, <<"c", "a", "s", "e", "_", "i", "d">>, Null)
             /\ response.patient_id = Get(request.json, <<"p", "a", "t", "i", "e", "n", "t", "_", "i", "d">>, Null)
             /\ response.has_ai_output
             /\ response.has_meta
             /\ \A t \in TermsIn(emr) :
                  /\ response.ai_output.has_safety_warnings
                  /\ \E i \in 1..Len(response.ai_output.safety_warnings) :
                       Contains(Lower(response.ai_output.safety_warnings[i]), t)
             /\ emr = EmptyDict =>
                  /\ response.ai_output.summary = <<>>
                  /\ response.ai_output.key_insights = <<>>
                  /\ response.ai_output.confidence_level = "low"

\* the texts of the findings of the payload, and their dedup keys
HumanizedFindings ==
  [i \in 1..Len(OrderedFindings) |-> _humanize_finding(OrderedFindings[i])]

DedupKeys(hs) == [i \in 1..Len(hs) |-> _normalize_key_for_dedup(hs[i])]

\* the indices of the texts that are a first occurrence of their dedup key
\* among the texts that are not empty
FirstOfKey(hs, ks) ==
  {i \in 1..Len(hs) :
     /\ hs[i] # <<>>
     /\ \A j \in 1..(i - 1) : hs[j] # <<>> => ks[j] # ks[i]}

\* the k-th smallest element of the set S of numbers
KthOf(S, k) == CHOOSE i \in S : Cardinality({j \in S : j < i}) = k - 1

RiskSentences ==
  [i \in 1..Len(payload.meta.risk_flags) |-> RiskMessage(payload.meta.risk_flags[i])]

IsPrefix(xs, ys) == Len(xs) <= Len(ys) /\ SubSeq(ys, 1, Len(xs)) = xs

\* a step of one build_llm_payload call after its audit dict was made
StepOfCall == pc \in {"history", "examination", "investigation", "parse", "risks", "prioritize"}

\* the entries of the four producers, each run on the request with an audit of its own
DiscardedInOrder ==
  HistoryRun(history, NewAudit).audit.discarded
    \o ExaminationRun(examination, NewAudit).audit.discarded
    \o InvestigationRun(investigation, NewAudit).audit.discarded
    \o parse_investigations(investigation, NewAudit).audit.discarded

\* C19 The audit trail is append-only and chronological within one call: a
\* step of the call leaves every entry of audit.discarded and
\* audit.warnings where it is and only appends, and in the returned
\* audit.discarded the entries of history extraction come first, then those
\* of examination extraction, of the textual investigation pass and of the
\* numeric investigation pass, duplicates kept.
C19_AuditAppendOnly ==
  /\ [][StepOfCall =>
          /\ IsPrefix(audit.discarded, audit'.discarded)
          /\ IsPrefix(audit.warnings, audit'.warnings)]_vars
  /\ [](Returned =>
          /\ payload.meta.audit = audit
          /\ audit.discarded = DiscardedInOrder
          /\ audit.warnings = parse_investigations(investigation, NewAudit).audit.warnings)

\* a returned payload whose audit has entries of the four producers, one of
\* them twice
C19_Witness ==
  /\ pc = "returned"
  /\ HistoryRun(history, NewAudit).audit.discarded # <<>>
  /\ ExaminationRun(examination, NewAudit).audit.discarded # <<>>
  /\ InvestigationRun(investigation, NewAudit).audit.discarded # <<>>
  /\ parse_investigations(investigation, NewAudit).audit.discarded # <<>>
  /\ \E i, j \in 1..Len(audit.discarded) : i # j /\ audit.discarded[i] = audit.discarded[j]

\* C20 Unique and sorted findings: the history findings and the
\* examination findings are each in ascending order of their characters,
\* letter case told apart, without duplicates, and are the findings the
\* extractor added, however often and in whatever order it added them.
C20_FindingsUniqueSorted ==
  /\ pc \in {"examination", "investigation", "parse", "risks", "prioritize", "returned", "reported"} =>
       /\ StrictlyAscending(history_findings)
       /\ Range(history_findings) = HistoryRun(history, NewAudit).findings
       /\ Range(history_findings)
            = {a.f : a \in Range(HistoryRun(history, NewAudit).adds)}
  /\ pc \in {"investigation", "parse", "risks", "prioritize", "returned", "reported"} =>
       /\ StrictlyAscending(exam_findings)
       /\ Range(exam_findings) = ExaminationRun(examination, NewAudit).findings
       /\ Range(exam_findings)
            = {a.f : a \in Range(ExaminationRun(examination, NewAudit).adds)}

\* the extractor added a finding twice, added findings out of order, and added
\* two findings that differ in letter case alone
C20_Witness ==
  /\ pc = "examination"
  /\ LET added == HistoryRun(history, NewAudit).adds
     IN  /\ \E i, j \in 1..Len(added) : i < j /\ added[i].f = added[j].f
         /\ \E i, j \in 1..Len(added) : i < j /\ StrLess(added[j].f, added[i].f)
         /\ \E i, j \in 1..Len(added) :
              added[i].f # added[j].f /\ Lower(added[i].f) = Lower(added[j].f)
  /\ Len(history_findings) = 2

\* C22 normalize_section_label is idempotent: the label normalised once more
\* is the label normalised once.
C22_Idempotent ==
  pc = "relabelled" => label = normalize_section_label(section_name)

\* the key of a template that _process_templates handles: the first of
\* sections, forms, data that the dict carries
HandledKey(t) ==
  IF ~IsDict(t) THEN "none"
  ELSE IF HasKey(t, <<"s", "e", "c", "t", "i", "o", "n", "s">>) THEN "sections"
  ELSE IF HasKey(t, <<"f", "o", "r", "m", "s">>) THEN "forms"
  ELSE IF HasKey(t, <<"d", "a", "t", "a">>) THEN "data"
  ELSE "none"

\* what the content under the handled key, and it alone, yields
YieldOf(t) ==
  LET v == IF HandledKey(t) = "sections" THEN Get(t, <<"s", "e", "c", "t", "i", "o", "n", "s">>, Missing)
           ELSE IF HandledKey(t) = "forms" THEN Get(t, <<"f", "o", "r", "m", "s">>, Missing)
           ELSE IF HandledKey(t) = "data" THEN Get(t, <<"d", "a", "t", "a">>, Missing)
           ELSE Missing
  IN  CASE v = SECTIONS_FULL ->
             [findings |-> {<<"S", "e", "c", " ", "s", ":", " ", "1">>}, discarded |-> <<<<"S", "e", "c", ".", "s", "x", ":", " ", "i", "g", "n", "o", "r", "e", "d", " ", "v", "a", "l", "u", "e", " ", "'", "'">>>>]
        [] v = FORMS_FULL ->
             [findings |-> {<<"H", "i", "s", "t", "o", "r", "y", " ", "f", ":", " ", "2">>}, discarded |-> <<<<"H", "i", "s", "t", "o", "r", "y", ".", "f", "x", ":", " ", "i", "g", "n", "o", "r", "e", "d", " ", "v", "a", "l", "u", "e", " ", "'", "'">>>>]
        [] v = DATA_FULL ->
             [findings |-> {<<"H", "i", "s", "t", "o", "r", "y", " ", "d", ":", " ", "3">>}, discarded |-> <<<<"H", "i", "s", "t", "o", "r", "y", ".", "d", "x", ":", " ", "i", "g", "n", "o", "r", "e", "d", " ", "v", "a", "l", "u", "e", " ", "'", "'">>>>]
        [] v = DATA_BAD ->
             [findings |-> {}, discarded |-> <<<<"H", "i", "s", "t", "o", "r", "y", ":", " ", "d", "a", "t", "a", " ", "n", "o", "t", " ", "a", " ", "d", "i", "c", "t">>>>]
        [] OTHER -> [findings |-> {}, discarded |-> <<>>]

\* the loop ends at a template whose sections is None (TypeError)
Stops(t) == HandledKey(t) = "sections" /\ Get(t, <<"s", "e", "c", "t", "i", "o", "n", "s">>, Missing) = Null

\* the templates the loop visits: all, or those up to the first that stops it
Visited ==
  IF ~IsList(templates) THEN <<>>
  ELSE IF \E i \in 1..Len(templates.items) : Stops(templates.items[i])
    THEN SubSeq(templates.items, 1,
                CHOOSE i \in 1..Len(templates.items) :
                  /\ Stops(templates.items[i])
                  /\ \A j \in 1..(i - 1) : ~Stops(templates.items[j]))
  ELSE templates.items

\* the audit entries the visited templates yield from index i, in order
RECURSIVE YieldedEntries(_)
YieldedEntries(i) ==
  IF i > Len(Visited) THEN <<>> ELSE YieldOf(Visited[i]).discarded \o YieldedEntries(i + 1)

\* C23 Template shape precedence: after _process_templates the findings set
\* and the audit hold what they held before and, for each template in order,
\* what the content under its first key among sections, forms, data yields;
\* the content under its other keys yields nothing, and a template that is
\* not a dict or has none of the keys yields nothing.
C23_ShapePrecedence ==
  pc \in {"processed", "raised"} =>
    /\ findings = on_entry.findings \cup UNION {YieldOf(Visited[i]).findings : i \in 1..Len(Visited)}
    /\ audit.discarded = on_entry.audit.discarded \o YieldedEntries(1)
    /\ audit.warnings = on_entry.audit.warnings
    /\ (pc = "raised") = (Visited # <<>> /\ Stops(Visited[Len(Visited)]))

\* the call was given a set and an audit with earlier entries, a template with
\* content under the three keys, one with forms and data, and it returned
C23_Witness ==
  /\ pc = "processed"
  /\ on_entry.findings # {}
  /\ on_entry.audit.discarded # <<>>
  /\ templates.items = << MakeTemplate(SECTIONS_FULL, FORMS_FULL, DATA_FULL),
                          MakeTemplate(Missing, FORMS_FULL, DATA_BAD) >>

\* the payload and the report of an invocation with the audit dict they refer to
PayloadOf(i) == [calls[i].payload EXCEPT !.meta.audit = heap[calls[i].payload.meta.audit]]

ReportOf(i) == [calls[i].report EXCEPT !.audit = heap[calls[i].report.audit]]

\* the findings, audit entries and risk flags of a result
TraceOf(p) ==
  Range(p.clinical_context.high_priority) \cup Range(p.clinical_context.medium_priority)
    \cup Range(p.clinical_context.low_priority) \cup Range(p.meta.risk_flags)
    \cup Range(p.meta.audit.discarded) \cup Range(p.meta.audit.warnings)

\* C21 Concurrent invocation safety: however the statements of several
\* invocations on different requests are interleaved, an invocation raises
\* exactly when it raises alone, and its payload (the instant apart) and its
\* report are those it returns alone, at its return and for as long as the
\* others run; nothing of another invocation's findings, audit entries or
\* risk flags is in it; FORBIDDEN_TERMS and RISK_TO_ACTIONS stay as imported.
C21_ConcurrentSafety ==
  /\ pc = "many" =>
       \A i \in DOMAIN calls :
         LET alone == AloneOf(calls[i].context)
         IN  /\ calls[i].pc = "raised" => alone.raised
             /\ calls[i].pc \in {"returned", "reported"} =>
                  /\ ~alone.raised
                  /\ Timeless(PayloadOf(i)) = alone.payload
                  /\ \A j \in DOMAIN calls \ {i} :
                       Then(AloneOf(calls[j].context), LAMBDA other :
                         ~other.raised =>
                           TraceOf(PayloadOf(i)) \cap TraceOf(other.payload) = {})
             /\ calls[i].pc = "reported" => ReportOf(i) = alone.report
  /\ tables = MODULE_TABLES

\* the first invocation has returned its report, with risk flags and audit
\* entries, while the second, which created its audit dict first, is half-way
\* and has audit entries of its own
C21_Witness ==
  /\ pc = "many"
  /\ calls[1].pc = "reported"
  /\ calls[2].pc = "investigation"
  /\ calls[2].audit = 1
  /\ calls[1].audit = 2
  /\ heap[1].discarded # <<>>
  /\ heap[2].discarded # <<>>
  /\ calls[1].payload.meta.risk_flags # <<>>

====
